---------------------------- MODULE Spec2Model ----------------------------
(***************************************************************************)
(* AIS2DW12 register driver (ais2dw12_reg.c) against a simulated register  *)
(* store.  Every public function is an operator from a machine record      *)
(* (context, register store, the statuses the transport will answer, the   *)
(* log of bus transactions issued) to the machine record at its return.    *)
(* One action per public function applies it to the store.                 *)
(***************************************************************************)
EXTENDS Integers, Sequences, FiniteSets, TLC

VARIABLES regs, hist, threads

vars == <<regs, hist, threads>>

---------------------------------------------------------------------------
(* Bounds of the model *)

\* seed patterns 0..MaxSeed pre-loaded in the simulated register store
MaxSeed == 2

---------------------------------------------------------------------------
(* Register map (ais2dw12_reg.h) *)

AIS2DW12_CTRL1 == 32
AIS2DW12_CTRL2 == 33
AIS2DW12_CTRL3 == 34
AIS2DW12_CTRL4_INT1 == 35
AIS2DW12_CTRL5_INT2 == 36
AIS2DW12_CTRL6 == 37
AIS2DW12_FIFO_CTRL == 46
AIS2DW12_WAKE_UP_THS == 52
AIS2DW12_WAKE_UP_DUR == 53
AIS2DW12_FREE_FALL == 54
AIS2DW12_CTRL7 == 63
AIS2DW12_OUT_T_L == 13
AIS2DW12_WHO_AM_I == 15
AIS2DW12_STATUS == 39
AIS2DW12_OUT_X_L == 40
AIS2DW12_FIFO_SAMPLES == 47
AIS2DW12_SIXD_THS == 48
AIS2DW12_STATUS_DUP == 55
AIS2DW12_WAKE_UP_SRC == 56
AIS2DW12_SIXD_SRC == 58
AIS2DW12_ALL_INT_SRC == 59
AIS2DW12_X_OFS_USR == 60
AIS2DW12_Y_OFS_USR == 61
AIS2DW12_Z_OFS_USR == 62

\* the registers the driver reads in one burst: the temperature pair, the
\* three acceleration pairs, the five bytes of the status block
OutputAddr ==
  (AIS2DW12_OUT_T_L .. AIS2DW12_OUT_T_L + 1)
    \cup (AIS2DW12_OUT_X_L .. AIS2DW12_OUT_X_L + 5)
    \cup (AIS2DW12_STATUS_DUP .. AIS2DW12_STATUS_DUP + 4)

Addr ==
  { AIS2DW12_CTRL1, AIS2DW12_CTRL2, AIS2DW12_CTRL3, AIS2DW12_CTRL4_INT1,
    AIS2DW12_CTRL5_INT2, AIS2DW12_CTRL6, AIS2DW12_FIFO_CTRL,
    AIS2DW12_WAKE_UP_THS, AIS2DW12_WAKE_UP_DUR, AIS2DW12_FREE_FALL,
    AIS2DW12_CTRL7, AIS2DW12_WHO_AM_I, AIS2DW12_STATUS,
    AIS2DW12_FIFO_SAMPLES, AIS2DW12_SIXD_THS, AIS2DW12_X_OFS_USR,
    AIS2DW12_Y_OFS_USR, AIS2DW12_Z_OFS_USR } \cup OutputAddr

PROPERTY_DISABLE == 0
PROPERTY_ENABLE == 1

\* bit-field layouts: field |-> <<lowest bit, width>>
ais2dw12_ctrl1_t == [pw_mode |-> <<0, 2>>, op_mode |-> <<2, 2>>, odr |-> <<4, 4>>]

ais2dw12_ctrl2_t ==
  [sim |-> <<0, 1>>, i2c_disable |-> <<1, 1>>, if_add_inc |-> <<2, 1>>,
   bdu |-> <<3, 1>>, cs_pu_disc |-> <<4, 1>>, soft_reset |-> <<6, 1>>,
   boot |-> <<7, 1>>]

ais2dw12_ctrl3_t ==
  [slp_mode |-> <<0, 2>>, h_lactive |-> <<3, 1>>, lir |-> <<4, 1>>,
   pp_od |-> <<5, 1>>, st |-> <<6, 2>>]

ais2dw12_ctrl4_int1_t ==
  [int1_drdy |-> <<0, 1>>, int1_fth |-> <<1, 1>>, int1_diff5 |-> <<2, 1>>,
   int1_ff |-> <<4, 1>>, int1_wu |-> <<5, 1>>, int1_6d |-> <<7, 1>>]

ais2dw12_ctrl5_int2_t ==
  [int2_drdy |-> <<0, 1>>, int2_fth |-> <<1, 1>>, int2_diff5 |-> <<2, 1>>,
   int2_ovr |-> <<3, 1>>, int2_drdy_t |-> <<4, 1>>, int2_boot |-> <<5, 1>>,
   int2_sleep_chg |-> <<6, 1>>, int2_sleep_state |-> <<7, 1>>]

ais2dw12_ctrl6_t == [fds |-> <<3, 1>>, fs |-> <<4, 2>>, bw_filt |-> <<6, 2>>]

ais2dw12_ctrl7_t ==
  [lpass_on6d |-> <<0, 1>>, hp_ref_mode |-> <<1, 1>>, usr_off_w |-> <<2, 1>>,
   usr_off_on_wu |-> <<3, 1>>, usr_off_on_out |-> <<4, 1>>,
   interrupts_enable |-> <<5, 1>>, int2_on_int1 |-> <<6, 1>>,
   drdy_pulsed |-> <<7, 1>>]

ais2dw12_wake_up_ths_t == [wk_ths |-> <<0, 6>>, sleep_on |-> <<6, 1>>]

ais2dw12_wake_up_dur_t ==
  [sleep_dur |-> <<0, 4>>, stationary |-> <<4, 1>>, wake_dur |-> <<5, 2>>,
   ff_dur |-> <<7, 1>>]

ais2dw12_free_fall_t == [ff_ths |-> <<0, 3>>, ff_dur |-> <<3, 5>>]

ais2dw12_fifo_ctrl_t == [fth |-> <<0, 5>>, fmode |-> <<5, 3>>]

ais2dw12_status_t ==
  [drdy |-> <<0, 1>>, ff_ia |-> <<1, 1>>, ia_6d |-> <<2, 1>>,
   sleep_state |-> <<5, 1>>, wu_ia |-> <<6, 1>>, fifo_ths |-> <<7, 1>>]

ais2dw12_fifo_samples_t ==
  [diff |-> <<0, 6>>, fifo_ovr |-> <<6, 1>>, fifo_fth |-> <<7, 1>>]

ais2dw12_sixd_ths_t == ("_6d_ths" :> <<5, 2>>) @@ ("_4d_en" :> <<7, 1>>)

---------------------------------------------------------------------------
(* C arithmetic on uint8_t and on bit-fields *)

Byte == 0..255

Pow2(n) == 2 ^ n

\* (uint8_t) x
U8(x) == x % 256

RECURSIVE BitAnd(_, _)
\* a & b on non-negative integers
BitAnd(a, b) ==
  IF a = 0 \/ b = 0 THEN 0
  ELSE (a % 2) * (b % 2) + 2 * BitAnd(a \div 2, b \div 2)

RECURSIVE BitOr(_, _)
\* a | b on non-negative integers
BitOr(a, b) ==
  IF a = 0 THEN b
  ELSE IF b = 0 THEN a
  ELSE ((a % 2) + (b % 2) - (a % 2) * (b % 2)) + 2 * BitOr(a \div 2, b \div 2)

\* a >> n
Shr(a, n) == a \div Pow2(n)

\* a << n
Shl(a, n) == a * Pow2(n)

\* switch (key) whose every case assigns its own label and whose default
\* assigns dflt
Switch(key, cases, dflt) == IF key \in cases THEN key ELSE dflt

\* the members of an enumeration type
Members(E) == {E[n] : n \in DOMAIN E}

\* reg.f read from the byte b overlaid by bit-field struct T
Get(b, T, f) == (b \div Pow2(T[f][1])) % Pow2(T[f][2])

\* reg.f = v: the value is truncated to the width of the field, the other
\* bits of the byte are kept
Put(b, T, f, v) ==
  b - Get(b, T, f) * Pow2(T[f][1]) + (v % Pow2(T[f][2])) * Pow2(T[f][1])

---------------------------------------------------------------------------
(* Transport *)

NULL == "NULL"
VALID == "ctx"

\* failure codes of the transport callbacks: any non-zero status, here one
\* negative and one positive, both different from the driver's own -1
ErrCodes == {-2, 5}

\* statuses a transport callback may answer; 0 is success
Status == {0} \cup ErrCodes

\* the statuses the callbacks answer to the first n transactions of a call
Plans(n) == [1..n -> Status]

\* the caller's ctx->read_reg on the simulated store: on success the buffer
\* holds len consecutive registers, on failure the buffer is left as it was
\* (uninitialized storage of the driver function: m.junk)
platform_read(m, reg, len) ==
  LET st == m.plan[Len(m.bus) + 1]
  IN  [m EXCEPT !.ret = st,
                !.bus = Append(@, [dir |-> "R", reg |-> reg, len |-> len, st |-> st]),
                !.data = IF st = 0 THEN [i \in 1..len |-> m.regs[reg + i - 1]]
                         ELSE [i \in 1..len |-> m.junk]]

\* the caller's ctx->write_reg on the simulated store: a successful write
\* stores the byte, a failed one leaves the store as it was
platform_write(m, reg, b) ==
  LET st == m.plan[Len(m.bus) + 1]
  IN  [m EXCEPT !.ret = st,
                !.bus = Append(@, [dir |-> "W", reg |-> reg, len |-> 1, st |-> st]),
                !.regs = IF st = 0 THEN [@ EXCEPT ![reg] = b] ELSE @]

\* ais2dw12_read_reg calling the transport without testing ctx
read_reg_ctx_unchecked(m, reg, len) == platform_read(m, reg, len)

ais2dw12_read_reg(m, reg, len) ==
  IF m.ctx = NULL
  THEN [m EXCEPT !.ret = -1, !.data = [i \in 1..len |-> m.junk]]
  ELSE platform_read(m, reg, len)

ais2dw12_write_reg(m, reg, b) ==
  IF m.ctx = NULL
  THEN [m EXCEPT !.ret = -1]
  ELSE platform_write(m, reg, b)

---------------------------------------------------------------------------
(* Enumerations (ais2dw12_reg.h) *)

ais2dw12_mode_t ==
  [AIS2DW12_PWR_MD_4 |-> 3, AIS2DW12_PWR_MD_3 |-> 2, AIS2DW12_PWR_MD_2 |-> 1,
   AIS2DW12_PWR_MD_12bit |-> 0, AIS2DW12_SINGLE_PWR_MD_4 |-> 11,
   AIS2DW12_SINGLE_PWR_MD_3 |-> 10, AIS2DW12_SINGLE_PWR_MD_2 |-> 9,
   AIS2DW12_SINGLE_PWR_MD_12bit |-> 8]

ais2dw12_odr_t ==
  [AIS2DW12_XL_ODR_OFF |-> 0, AIS2DW12_XL_ODR_12Hz5 |-> 2,
   AIS2DW12_XL_ODR_25Hz |-> 3, AIS2DW12_XL_ODR_50Hz |-> 4,
   AIS2DW12_XL_ODR_100Hz |-> 5, AIS2DW12_XL_SET_SW_TRIG |-> 50,
   AIS2DW12_XL_SET_PIN_TRIG |-> 18]

ais2dw12_fs_t == [AIS2DW12_2g |-> 0, AIS2DW12_4g |-> 1]

ais2dw12_fds_t ==
  [AIS2DW12_LPF_ON_OUT |-> 0, AIS2DW12_USER_OFFSET_ON_OUT |-> 1,
   AIS2DW12_HIGH_PASS_ON_OUT |-> 16]

ais2dw12_sleep_on_t ==
  [AIS2DW12_NO_DETECTION |-> 0, AIS2DW12_DETECT_ACT_INACT |-> 1,
   AIS2DW12_DETECT_STAT_MOTION |-> 3]

---------------------------------------------------------------------------
(* AIS2DW12_Data_Generation *)

ais2dw12_power_mode_set(m0, val) ==
  LET m1 == ais2dw12_read_reg(m0, AIS2DW12_CTRL1, 1)
      a == Put(m1.data[1], ais2dw12_ctrl1_t, "op_mode", Shr(BitAnd(U8(val), 12), 2))
      ctrl1 == Put(a, ais2dw12_ctrl1_t, "pw_mode", BitAnd(U8(val), 3))
  IN  IF m1.ret = 0 THEN ais2dw12_write_reg(m1, AIS2DW12_CTRL1, ctrl1) ELSE m1

\* ais2dw12_power_mode_get whose default case assigns AIS2DW12_PWR_MD_12bit
power_mode_get_default_12bit(m0) ==
  LET m1 == ais2dw12_read_reg(m0, AIS2DW12_CTRL1, 1)
      ctrl1 == m1.data[1]
      key == Shl(Get(ctrl1, ais2dw12_ctrl1_t, "op_mode"), 2)
               + Get(ctrl1, ais2dw12_ctrl1_t, "pw_mode")
      E == ais2dw12_mode_t
  IN  [m1 EXCEPT !.val =
         Switch(key,
                {E.AIS2DW12_PWR_MD_4, E.AIS2DW12_PWR_MD_3, E.AIS2DW12_PWR_MD_2,
                 E.AIS2DW12_PWR_MD_12bit, E.AIS2DW12_SINGLE_PWR_MD_4,
                 E.AIS2DW12_SINGLE_PWR_MD_3, E.AIS2DW12_SINGLE_PWR_MD_2,
                 E.AIS2DW12_SINGLE_PWR_MD_12bit},
                E.AIS2DW12_PWR_MD_12bit)]

\* the switch runs whatever the read returned
ais2dw12_power_mode_get(m0) ==
  LET m1 == ais2dw12_read_reg(m0, AIS2DW12_CTRL1, 1)
      ctrl1 == m1.data[1]
      key == Shl(Get(ctrl1, ais2dw12_ctrl1_t, "op_mode"), 2)
               + Get(ctrl1, ais2dw12_ctrl1_t, "pw_mode")
      E == ais2dw12_mode_t
  IN  [m1 EXCEPT !.val =
         Switch(key,
                {E.AIS2DW12_PWR_MD_4, E.AIS2DW12_PWR_MD_3, E.AIS2DW12_PWR_MD_2,
                 E.AIS2DW12_PWR_MD_12bit, E.AIS2DW12_SINGLE_PWR_MD_4,
                 E.AIS2DW12_SINGLE_PWR_MD_3, E.AIS2DW12_SINGLE_PWR_MD_2,
                 E.AIS2DW12_SINGLE_PWR_MD_12bit},
                E.AIS2DW12_PWR_MD_4)]

\* ais2dw12_data_rate_set masking val for slp_mode without shifting it down
data_rate_set_slp_mode_unshifted(m0, val) ==
  LET m1 == ais2dw12_read_reg(m0, AIS2DW12_CTRL1, 1)
      ctrl1 == Put(m1.data[1], ais2dw12_ctrl1_t, "odr", U8(val))
      m2 == IF m1.ret = 0 THEN ais2dw12_write_reg(m1, AIS2DW12_CTRL1, ctrl1) ELSE m1
      m3 == IF m2.ret = 0 THEN ais2dw12_read_reg(m2, AIS2DW12_CTRL3, 1) ELSE m2
      ctrl3 == Put(m3.data[1], ais2dw12_ctrl3_t, "slp_mode", BitAnd(U8(val), 48))
  IN  IF m3.ret = 0 THEN ais2dw12_write_reg(m3, AIS2DW12_CTRL3, ctrl3) ELSE m3

\* read CTRL1, write CTRL1, read CTRL3, write CTRL3
ais2dw12_data_rate_set(m0, val) ==
  LET m1 == ais2dw12_read_reg(m0, AIS2DW12_CTRL1, 1)
      ctrl1 == Put(m1.data[1], ais2dw12_ctrl1_t, "odr", U8(val))
      m2 == IF m1.ret = 0 THEN ais2dw12_write_reg(m1, AIS2DW12_CTRL1, ctrl1) ELSE m1
      m3 == IF m2.ret = 0 THEN ais2dw12_read_reg(m2, AIS2DW12_CTRL3, 1) ELSE m2
      ctrl3 == Put(m3.data[1], ais2dw12_ctrl3_t, "slp_mode", Shr(BitAnd(U8(val), 48), 4))
  IN  IF m3.ret = 0 THEN ais2dw12_write_reg(m3, AIS2DW12_CTRL3, ctrl3) ELSE m3

\* ais2dw12_data_rate_get not assigning the status of its second read to ret
data_rate_get_second_status_dropped(m0) ==
  LET m1 == ais2dw12_read_reg(m0, AIS2DW12_CTRL1, 1)
      ctrl1 == m1.data[1]
      m2 == ais2dw12_read_reg(m1, AIS2DW12_CTRL3, 1)
      ctrl3 == m2.data[1]
      key == Shl(Get(ctrl3, ais2dw12_ctrl3_t, "slp_mode"), 4)
               + Get(ctrl1, ais2dw12_ctrl1_t, "odr")
      E == ais2dw12_odr_t
  IN  IF m1.ret = 0
      THEN [m2 EXCEPT !.ret = m1.ret,
                      !.val =
              Switch(key,
                     {E.AIS2DW12_XL_ODR_OFF, E.AIS2DW12_XL_ODR_12Hz5,
                      E.AIS2DW12_XL_ODR_25Hz, E.AIS2DW12_XL_ODR_50Hz,
                      E.AIS2DW12_XL_ODR_100Hz, E.AIS2DW12_XL_SET_SW_TRIG,
                      E.AIS2DW12_XL_SET_PIN_TRIG},
                     E.AIS2DW12_XL_ODR_OFF)]
      ELSE m1

\* the switch is inside the first read's success branch and runs whatever
\* the second read returned
ais2dw12_data_rate_get(m0) ==
  LET m1 == ais2dw12_read_reg(m0, AIS2DW12_CTRL1, 1)
      ctrl1 == m1.data[1]
      m2 == ais2dw12_read_reg(m1, AIS2DW12_CTRL3, 1)
      ctrl3 == m2.data[1]
      key == Shl(Get(ctrl3, ais2dw12_ctrl3_t, "slp_mode"), 4)
               + Get(ctrl1, ais2dw12_ctrl1_t, "odr")
      E == ais2dw12_odr_t
  IN  IF m1.ret = 0
      THEN [m2 EXCEPT !.val =
              Switch(key,
                     {E.AIS2DW12_XL_ODR_OFF, E.AIS2DW12_XL_ODR_12Hz5,
                      E.AIS2DW12_XL_ODR_25Hz, E.AIS2DW12_XL_ODR_50Hz,
                      E.AIS2DW12_XL_ODR_100Hz, E.AIS2DW12_XL_SET_SW_TRIG,
                      E.AIS2DW12_XL_SET_PIN_TRIG},
                     E.AIS2DW12_XL_ODR_OFF)]
      ELSE m1

ais2dw12_full_scale_set(m0, val) ==
  LET m1 == ais2dw12_read_reg(m0, AIS2DW12_CTRL6, 1)
      reg == Put(m1.data[1], ais2dw12_ctrl6_t, "fs", U8(val))
  IN  IF m1.ret = 0 THEN ais2dw12_write_reg(m1, AIS2DW12_CTRL6, reg) ELSE m1

\* ais2dw12_full_scale_get switching on three bits of CTRL6 from bit 4
full_scale_get_three_bits(m0) ==
  LET m1 == ais2dw12_read_reg(m0, AIS2DW12_CTRL6, 1)
      E == ais2dw12_fs_t
  IN  [m1 EXCEPT !.val =
         Switch(Shr(m1.data[1], 4) % 8,
                {E.AIS2DW12_2g, E.AIS2DW12_4g}, E.AIS2DW12_2g)]

ais2dw12_full_scale_get(m0) ==
  LET m1 == ais2dw12_read_reg(m0, AIS2DW12_CTRL6, 1)
      E == ais2dw12_fs_t
  IN  [m1 EXCEPT !.val =
         Switch(Get(m1.data[1], ais2dw12_ctrl6_t, "fs"),
                {E.AIS2DW12_2g, E.AIS2DW12_4g}, E.AIS2DW12_2g)]

---------------------------------------------------------------------------
(* AIS2DW12_Filters *)

\* ais2dw12_filter_path_set masking val for fds without shifting it down
filter_path_set_fds_unshifted(m0, val) ==
  LET m1 == ais2dw12_read_reg(m0, AIS2DW12_CTRL6, 1)
      ctrl6 == Put(m1.data[1], ais2dw12_ctrl6_t, "fds", BitAnd(U8(val), 16))
      m2 == IF m1.ret = 0 THEN ais2dw12_write_reg(m1, AIS2DW12_CTRL6, ctrl6) ELSE m1
      m3 == IF m2.ret = 0 THEN ais2dw12_read_reg(m2, AIS2DW12_CTRL7, 1) ELSE m2
      ctrl_reg7 == Put(m3.data[1], ais2dw12_ctrl7_t, "usr_off_on_out", BitAnd(U8(val), 1))
  IN  IF m3.ret = 0 THEN ais2dw12_write_reg(m3, AIS2DW12_CTRL7, ctrl_reg7) ELSE m3

\* read CTRL6, write CTRL6, read CTRL7, write CTRL7
ais2dw12_filter_path_set(m0, val) ==
  LET m1 == ais2dw12_read_reg(m0, AIS2DW12_CTRL6, 1)
      ctrl6 == Put(m1.data[1], ais2dw12_ctrl6_t, "fds", Shr(BitAnd(U8(val), 16), 4))
      m2 == IF m1.ret = 0 THEN ais2dw12_write_reg(m1, AIS2DW12_CTRL6, ctrl6) ELSE m1
      m3 == IF m2.ret = 0 THEN ais2dw12_read_reg(m2, AIS2DW12_CTRL7, 1) ELSE m2
      ctrl_reg7 == Put(m3.data[1], ais2dw12_ctrl7_t, "usr_off_on_out", BitAnd(U8(val), 1))
  IN  IF m3.ret = 0 THEN ais2dw12_write_reg(m3, AIS2DW12_CTRL7, ctrl_reg7) ELSE m3

\* ais2dw12_filter_path_get writing CTRL6 back with fds cleared where it
\* reads CTRL7
filter_path_get_writes_back(m0) ==
  LET m1 == ais2dw12_read_reg(m0, AIS2DW12_CTRL6, 1)
      ctrl6 == m1.data[1]
      m2 == ais2dw12_write_reg(m1, AIS2DW12_CTRL6,
                               Put(ctrl6, ais2dw12_ctrl6_t, "fds", 0))
  IN  IF m1.ret = 0
      THEN [m2 EXCEPT !.val = Shl(Get(ctrl6, ais2dw12_ctrl6_t, "fds"), 4)]
      ELSE m1

ais2dw12_filter_path_get(m0) ==
  LET m1 == ais2dw12_read_reg(m0, AIS2DW12_CTRL6, 1)
      ctrl6 == m1.data[1]
      m2 == ais2dw12_read_reg(m1, AIS2DW12_CTRL7, 1)
      ctrl_reg7 == m2.data[1]
      key == Shl(Get(ctrl6, ais2dw12_ctrl6_t, "fds"), 4)
               + Get(ctrl_reg7, ais2dw12_ctrl7_t, "usr_off_on_out")
      E == ais2dw12_fds_t
  IN  IF m1.ret = 0
      THEN [m2 EXCEPT !.val =
              Switch(key,
                     {E.AIS2DW12_LPF_ON_OUT, E.AIS2DW12_USER_OFFSET_ON_OUT,
                      E.AIS2DW12_HIGH_PASS_ON_OUT},
                     E.AIS2DW12_LPF_ON_OUT)]
      ELSE m1

---------------------------------------------------------------------------
(* AIS2DW12_Interrupt_Pins *)

\* ais2dw12_pin_int1_route_set reading CTRL7 without looking at the status of
\* the read of CTRL5_INT2
pin_int1_route_set_unguarded_read(m0, val) ==
  LET m1 == ais2dw12_read_reg(m0, AIS2DW12_CTRL5_INT2, 1)
      ctrl5_int2_pad_ctrl == m1.data[1]
      m2 == ais2dw12_read_reg(m1, AIS2DW12_CTRL7, 1)
      any == BitOr(BitOr(BitOr(BitOr(
                 Get(val, ais2dw12_ctrl4_int1_t, "int1_ff"),
                 Get(val, ais2dw12_ctrl4_int1_t, "int1_wu")),
                 Get(val, ais2dw12_ctrl4_int1_t, "int1_6d")),
                 Get(ctrl5_int2_pad_ctrl, ais2dw12_ctrl5_int2_t, "int2_sleep_state")),
                 Get(ctrl5_int2_pad_ctrl, ais2dw12_ctrl5_int2_t, "int2_sleep_chg"))
      reg == Put(m2.data[1], ais2dw12_ctrl7_t, "interrupts_enable",
                 IF any # PROPERTY_DISABLE THEN PROPERTY_ENABLE ELSE PROPERTY_DISABLE)
      m3 == IF m2.ret = 0 THEN ais2dw12_write_reg(m2, AIS2DW12_CTRL4_INT1, val) ELSE m2
  IN  IF m3.ret = 0 THEN ais2dw12_write_reg(m3, AIS2DW12_CTRL7, reg) ELSE m3

\* ais2dw12_pin_int1_route_set writing CTRL7 back as it was read
pin_int1_route_set_enable_kept(m0, val) ==
  LET m1 == ais2dw12_read_reg(m0, AIS2DW12_CTRL5_INT2, 1)
      m2 == IF m1.ret = 0 THEN ais2dw12_read_reg(m1, AIS2DW12_CTRL7, 1) ELSE m1
      reg == m2.data[1]
      m3 == IF m2.ret = 0 THEN ais2dw12_write_reg(m2, AIS2DW12_CTRL4_INT1, val) ELSE m2
  IN  IF m3.ret = 0 THEN ais2dw12_write_reg(m3, AIS2DW12_CTRL7, reg) ELSE m3

\* ais2dw12_pin_int1_route_set leaving int2_sleep_chg out of the OR
pin_int1_route_set_sleep_chg_ignored(m0, val) ==
  LET m1 == ais2dw12_read_reg(m0, AIS2DW12_CTRL5_INT2, 1)
      ctrl5_int2_pad_ctrl == m1.data[1]
      m2 == IF m1.ret = 0 THEN ais2dw12_read_reg(m1, AIS2DW12_CTRL7, 1) ELSE m1
      any == BitOr(BitOr(BitOr(
                 Get(val, ais2dw12_ctrl4_int1_t, "int1_ff"),
                 Get(val, ais2dw12_ctrl4_int1_t, "int1_wu")),
                 Get(val, ais2dw12_ctrl4_int1_t, "int1_6d")),
                 Get(ctrl5_int2_pad_ctrl, ais2dw12_ctrl5_int2_t, "int2_sleep_state"))
      reg == Put(m2.data[1], ais2dw12_ctrl7_t, "interrupts_enable",
                 IF any # PROPERTY_DISABLE THEN PROPERTY_ENABLE ELSE PROPERTY_DISABLE)
      m3 == IF m2.ret = 0 THEN ais2dw12_write_reg(m2, AIS2DW12_CTRL4_INT1, val) ELSE m2
  IN  IF m3.ret = 0 THEN ais2dw12_write_reg(m3, AIS2DW12_CTRL7, reg) ELSE m3

\* val is the byte of the caller's ais2dw12_ctrl4_int1_t
ais2dw12_pin_int1_route_set(m0, val) ==
  LET m1 == ais2dw12_read_reg(m0, AIS2DW12_CTRL5_INT2, 1)
      ctrl5_int2_pad_ctrl == m1.data[1]
      m2 == IF m1.ret = 0 THEN ais2dw12_read_reg(m1, AIS2DW12_CTRL7, 1) ELSE m1
      any == BitOr(BitOr(BitOr(BitOr(
                 Get(val, ais2dw12_ctrl4_int1_t, "int1_ff"),
                 Get(val, ais2dw12_ctrl4_int1_t, "int1_wu")),
                 Get(val, ais2dw12_ctrl4_int1_t, "int1_6d")),
                 Get(ctrl5_int2_pad_ctrl, ais2dw12_ctrl5_int2_t, "int2_sleep_state")),
                 Get(ctrl5_int2_pad_ctrl, ais2dw12_ctrl5_int2_t, "int2_sleep_chg"))
      reg == Put(m2.data[1], ais2dw12_ctrl7_t, "interrupts_enable",
                 IF any # PROPERTY_DISABLE THEN PROPERTY_ENABLE ELSE PROPERTY_DISABLE)
      m3 == IF m2.ret = 0 THEN ais2dw12_write_reg(m2, AIS2DW12_CTRL4_INT1, val) ELSE m2
  IN  IF m3.ret = 0 THEN ais2dw12_write_reg(m3, AIS2DW12_CTRL7, reg) ELSE m3

\* ais2dw12_pin_int2_route_set taking the OR of the flags of val alone
pin_int2_route_set_stored_int1_ignored(m0, val) ==
  LET m1 == ais2dw12_read_reg(m0, AIS2DW12_CTRL4_INT1, 1)
      m2 == IF m1.ret = 0 THEN ais2dw12_read_reg(m1, AIS2DW12_CTRL7, 1) ELSE m1
      any == BitOr(Get(val, ais2dw12_ctrl5_int2_t, "int2_sleep_state"),
                   Get(val, ais2dw12_ctrl5_int2_t, "int2_sleep_chg"))
      reg == Put(m2.data[1], ais2dw12_ctrl7_t, "interrupts_enable",
                 IF any # PROPERTY_DISABLE THEN PROPERTY_ENABLE ELSE PROPERTY_DISABLE)
      m3 == IF m2.ret = 0 THEN ais2dw12_write_reg(m2, AIS2DW12_CTRL5_INT2, val) ELSE m2
  IN  IF m3.ret = 0 THEN ais2dw12_write_reg(m3, AIS2DW12_CTRL7, reg) ELSE m3

\* ais2dw12_pin_int2_route_set leaving the stored int1_ff out of the OR
pin_int2_route_set_int1_ff_ignored(m0, val) ==
  LET m1 == ais2dw12_read_reg(m0, AIS2DW12_CTRL4_INT1, 1)
      ctrl4_int1_pad_ctrl == m1.data[1]
      m2 == IF m1.ret = 0 THEN ais2dw12_read_reg(m1, AIS2DW12_CTRL7, 1) ELSE m1
      any == BitOr(BitOr(BitOr(
                 Get(ctrl4_int1_pad_ctrl, ais2dw12_ctrl4_int1_t, "int1_wu"),
                 Get(ctrl4_int1_pad_ctrl, ais2dw12_ctrl4_int1_t, "int1_6d")),
                 Get(val, ais2dw12_ctrl5_int2_t, "int2_sleep_state")),
                 Get(val, ais2dw12_ctrl5_int2_t, "int2_sleep_chg"))
      reg == Put(m2.data[1], ais2dw12_ctrl7_t, "interrupts_enable",
                 IF any # PROPERTY_DISABLE THEN PROPERTY_ENABLE ELSE PROPERTY_DISABLE)
      m3 == IF m2.ret = 0 THEN ais2dw12_write_reg(m2, AIS2DW12_CTRL5_INT2, val) ELSE m2
  IN  IF m3.ret = 0 THEN ais2dw12_write_reg(m3, AIS2DW12_CTRL7, reg) ELSE m3

\* val is the byte of the caller's ais2dw12_ctrl5_int2_t
ais2dw12_pin_int2_route_set(m0, val) ==
  LET m1 == ais2dw12_read_reg(m0, AIS2DW12_CTRL4_INT1, 1)
      ctrl4_int1_pad_ctrl == m1.data[1]
      m2 == IF m1.ret = 0 THEN ais2dw12_read_reg(m1, AIS2DW12_CTRL7, 1) ELSE m1
      any == BitOr(BitOr(BitOr(BitOr(
                 Get(ctrl4_int1_pad_ctrl, ais2dw12_ctrl4_int1_t, "int1_ff"),
                 Get(ctrl4_int1_pad_ctrl, ais2dw12_ctrl4_int1_t, "int1_wu")),
                 Get(ctrl4_int1_pad_ctrl, ais2dw12_ctrl4_int1_t, "int1_6d")),
                 Get(val, ais2dw12_ctrl5_int2_t, "int2_sleep_state")),
                 Get(val, ais2dw12_ctrl5_int2_t, "int2_sleep_chg"))
      reg == Put(m2.data[1], ais2dw12_ctrl7_t, "interrupts_enable",
                 IF any # PROPERTY_DISABLE THEN PROPERTY_ENABLE ELSE PROPERTY_DISABLE)
      m3 == IF m2.ret = 0 THEN ais2dw12_write_reg(m2, AIS2DW12_CTRL5_INT2, val) ELSE m2
  IN  IF m3.ret = 0 THEN ais2dw12_write_reg(m3, AIS2DW12_CTRL7, reg) ELSE m3

---------------------------------------------------------------------------
(* AIS2DW12_Activity/Inactivity_detection *)

\* ais2dw12_act_mode_set with its two writes in the other order
act_mode_set_writes_swapped(m0, val) ==
  LET m1 == ais2dw12_read_reg(m0, AIS2DW12_WAKE_UP_THS, 1)
      m2 == IF m1.ret = 0 THEN ais2dw12_read_reg(m1, AIS2DW12_WAKE_UP_DUR, 1) ELSE m1
      wake_up_dur == Put(m2.data[1], ais2dw12_wake_up_dur_t, "stationary",
                         Shr(BitAnd(U8(val), 2), 1))
      m3 == IF m2.ret = 0 THEN ais2dw12_write_reg(m2, AIS2DW12_WAKE_UP_DUR, wake_up_dur) ELSE m2
      wake_up_ths == Put(m1.data[1], ais2dw12_wake_up_ths_t, "sleep_on", BitAnd(U8(val), 1))
  IN  IF m3.ret = 0 THEN ais2dw12_write_reg(m3, AIS2DW12_WAKE_UP_THS, wake_up_ths) ELSE m3

\* read WAKE_UP_THS, read WAKE_UP_DUR, write WAKE_UP_THS, write WAKE_UP_DUR
\* ais2dw12_act_mode_set whose second read is of WAKE_UP_THS again
act_mode_set_first_read_repeated(m0, val) ==
  LET m1 == ais2dw12_read_reg(m0, AIS2DW12_WAKE_UP_THS, 1)
      m2 == IF m1.ret = 0 THEN ais2dw12_read_reg(m1, AIS2DW12_WAKE_UP_THS, 1) ELSE m1
      wake_up_ths == Put(m1.data[1], ais2dw12_wake_up_ths_t, "sleep_on", BitAnd(U8(val), 1))
      m3 == IF m2.ret = 0 THEN ais2dw12_write_reg(m2, AIS2DW12_WAKE_UP_THS, wake_up_ths) ELSE m2
      wake_up_dur == Put(m2.data[1], ais2dw12_wake_up_dur_t, "stationary",
                         Shr(BitAnd(U8(val), 2), 1))
  IN  IF m3.ret = 0 THEN ais2dw12_write_reg(m3, AIS2DW12_WAKE_UP_DUR, wake_up_dur) ELSE m3

ais2dw12_act_mode_set(m0, val) ==
  LET m1 == ais2dw12_read_reg(m0, AIS2DW12_WAKE_UP_THS, 1)
      m2 == IF m1.ret = 0 THEN ais2dw12_read_reg(m1, AIS2DW12_WAKE_UP_DUR, 1) ELSE m1
      wake_up_ths == Put(m1.data[1], ais2dw12_wake_up_ths_t, "sleep_on", BitAnd(U8(val), 1))
      m3 == IF m2.ret = 0 THEN ais2dw12_write_reg(m2, AIS2DW12_WAKE_UP_THS, wake_up_ths) ELSE m2
      wake_up_dur == Put(m2.data[1], ais2dw12_wake_up_dur_t, "stationary",
                         Shr(BitAnd(U8(val), 2), 1))
  IN  IF m3.ret = 0 THEN ais2dw12_write_reg(m3, AIS2DW12_WAKE_UP_DUR, wake_up_dur) ELSE m3

\* ais2dw12_act_mode_get issuing its second read outside the first read's
\* success branch
act_mode_get_second_read_unguarded(m0) ==
  LET m1 == ais2dw12_read_reg(m0, AIS2DW12_WAKE_UP_THS, 1)
      wake_up_ths == m1.data[1]
      m2 == ais2dw12_read_reg(m1, AIS2DW12_WAKE_UP_DUR, 1)
      wake_up_dur == m2.data[1]
      key == Shl(Get(wake_up_dur, ais2dw12_wake_up_dur_t, "stationary"), 1)
               + Get(wake_up_ths, ais2dw12_wake_up_ths_t, "sleep_on")
      E == ais2dw12_sleep_on_t
  IN  [m2 EXCEPT !.val =
         Switch(key,
                {E.AIS2DW12_NO_DETECTION, E.AIS2DW12_DETECT_ACT_INACT,
                 E.AIS2DW12_DETECT_STAT_MOTION},
                E.AIS2DW12_NO_DETECTION)]

ais2dw12_act_mode_get(m0) ==
  LET m1 == ais2dw12_read_reg(m0, AIS2DW12_WAKE_UP_THS, 1)
      wake_up_ths == m1.data[1]
      m2 == ais2dw12_read_reg(m1, AIS2DW12_WAKE_UP_DUR, 1)
      wake_up_dur == m2.data[1]
      key == Shl(Get(wake_up_dur, ais2dw12_wake_up_dur_t, "stationary"), 1)
               + Get(wake_up_ths, ais2dw12_wake_up_ths_t, "sleep_on")
      E == ais2dw12_sleep_on_t
  IN  IF m1.ret = 0
      THEN [m2 EXCEPT !.val =
              Switch(key,
                     {E.AIS2DW12_NO_DETECTION, E.AIS2DW12_DETECT_ACT_INACT,
                      E.AIS2DW12_DETECT_STAT_MOTION},
                     E.AIS2DW12_NO_DETECTION)]
      ELSE m1

---------------------------------------------------------------------------
(* AIS2DW12_free_fall *)

\* ais2dw12_ff_dur_set masking bit 5 of val without shifting it down
ff_dur_set_high_bit_unshifted(m0, val) ==
  LET m1 == ais2dw12_read_reg(m0, AIS2DW12_WAKE_UP_DUR, 1)
      m2 == IF m1.ret = 0 THEN ais2dw12_read_reg(m1, AIS2DW12_FREE_FALL, 1) ELSE m1
      wake_up_dur == Put(m1.data[1], ais2dw12_wake_up_dur_t, "ff_dur",
                         BitAnd(U8(val), 32))
      free_fall == Put(m2.data[1], ais2dw12_free_fall_t, "ff_dur", BitAnd(U8(val), 31))
      m3 == IF m2.ret = 0 THEN ais2dw12_write_reg(m2, AIS2DW12_WAKE_UP_DUR, wake_up_dur) ELSE m2
  IN  IF m3.ret = 0 THEN ais2dw12_write_reg(m3, AIS2DW12_FREE_FALL, free_fall) ELSE m3

\* ais2dw12_ff_dur_set not assigning the status of its last write to ret
ff_dur_set_last_status_dropped(m0, val) ==
  LET m1 == ais2dw12_read_reg(m0, AIS2DW12_WAKE_UP_DUR, 1)
      m2 == IF m1.ret = 0 THEN ais2dw12_read_reg(m1, AIS2DW12_FREE_FALL, 1) ELSE m1
      wake_up_dur == Put(m1.data[1], ais2dw12_wake_up_dur_t, "ff_dur",
                         Shr(BitAnd(U8(val), 32), 5))
      free_fall == Put(m2.data[1], ais2dw12_free_fall_t, "ff_dur", BitAnd(U8(val), 31))
      m3 == IF m2.ret = 0 THEN ais2dw12_write_reg(m2, AIS2DW12_WAKE_UP_DUR, wake_up_dur) ELSE m2
  IN  IF m3.ret = 0
      THEN [ais2dw12_write_reg(m3, AIS2DW12_FREE_FALL, free_fall) EXCEPT !.ret = m3.ret]
      ELSE m3

\* read WAKE_UP_DUR, read FREE_FALL, write WAKE_UP_DUR, write FREE_FALL
ais2dw12_ff_dur_set(m0, val) ==
  LET m1 == ais2dw12_read_reg(m0, AIS2DW12_WAKE_UP_DUR, 1)
      m2 == IF m1.ret = 0 THEN ais2dw12_read_reg(m1, AIS2DW12_FREE_FALL, 1) ELSE m1
      wake_up_dur == Put(m1.data[1], ais2dw12_wake_up_dur_t, "ff_dur",
                         Shr(BitAnd(U8(val), 32), 5))
      free_fall == Put(m2.data[1], ais2dw12_free_fall_t, "ff_dur", BitAnd(U8(val), 31))
      m3 == IF m2.ret = 0 THEN ais2dw12_write_reg(m2, AIS2DW12_WAKE_UP_DUR, wake_up_dur) ELSE m2
  IN  IF m3.ret = 0 THEN ais2dw12_write_reg(m3, AIS2DW12_FREE_FALL, free_fall) ELSE m3

---------------------------------------------------------------------------
(* AIS2DW12_Data_Generation (continued) *)

ais2dw12_usr_off_w_t ==
  [AIS2DW12_LSb_977ug |-> 0, AIS2DW12_LSb_15mg6 |-> 1]

ais2dw12_offset_weight_set(m0, val) ==
  LET m1 == ais2dw12_read_reg(m0, AIS2DW12_CTRL7, 1)
      reg == Put(m1.data[1], ais2dw12_ctrl7_t, "usr_off_w", U8(val))
  IN  IF m1.ret = 0 THEN ais2dw12_write_reg(m1, AIS2DW12_CTRL7, reg) ELSE m1

ais2dw12_offset_weight_get(m0) ==
  LET m1 == ais2dw12_read_reg(m0, AIS2DW12_CTRL7, 1)
      E == ais2dw12_usr_off_w_t
  IN  [m1 EXCEPT !.val =
         Switch(Get(m1.data[1], ais2dw12_ctrl7_t, "usr_off_w"),
                {E.AIS2DW12_LSb_977ug, E.AIS2DW12_LSb_15mg6},
                E.AIS2DW12_LSb_977ug)]

---------------------------------------------------------------------------
(* AIS2DW12_Common *)

ais2dw12_st_t ==
  [AIS2DW12_XL_ST_DISABLE |-> 0, AIS2DW12_XL_ST_POSITIVE |-> 1,
   AIS2DW12_XL_ST_NEGATIVE |-> 2]

\* ais2dw12_self_test_set building CTRL3 from a cleared byte
self_test_set_from_zero(m0, val) ==
  LET m1 == ais2dw12_read_reg(m0, AIS2DW12_CTRL3, 1)
      reg == Put(0, ais2dw12_ctrl3_t, "st", U8(val))
  IN  IF m1.ret = 0 THEN ais2dw12_write_reg(m1, AIS2DW12_CTRL3, reg) ELSE m1

ais2dw12_self_test_set(m0, val) ==
  LET m1 == ais2dw12_read_reg(m0, AIS2DW12_CTRL3, 1)
      reg == Put(m1.data[1], ais2dw12_ctrl3_t, "st", U8(val))
  IN  IF m1.ret = 0 THEN ais2dw12_write_reg(m1, AIS2DW12_CTRL3, reg) ELSE m1

ais2dw12_self_test_get(m0) ==
  LET m1 == ais2dw12_read_reg(m0, AIS2DW12_CTRL3, 1)
      E == ais2dw12_st_t
  IN  [m1 EXCEPT !.val =
         Switch(Get(m1.data[1], ais2dw12_ctrl3_t, "st"),
                {E.AIS2DW12_XL_ST_DISABLE, E.AIS2DW12_XL_ST_POSITIVE,
                 E.AIS2DW12_XL_ST_NEGATIVE},
                E.AIS2DW12_XL_ST_DISABLE)]

ais2dw12_drdy_pulsed_t ==
  [AIS2DW12_DRDY_LATCHED |-> 0, AIS2DW12_DRDY_PULSED |-> 1]

ais2dw12_data_ready_mode_set(m0, val) ==
  LET m1 == ais2dw12_read_reg(m0, AIS2DW12_CTRL7, 1)
      reg == Put(m1.data[1], ais2dw12_ctrl7_t, "drdy_pulsed", U8(val))
  IN  IF m1.ret = 0 THEN ais2dw12_write_reg(m1, AIS2DW12_CTRL7, reg) ELSE m1

ais2dw12_data_ready_mode_get(m0) ==
  LET m1 == ais2dw12_read_reg(m0, AIS2DW12_CTRL7, 1)
      E == ais2dw12_drdy_pulsed_t
  IN  [m1 EXCEPT !.val =
         Switch(Get(m1.data[1], ais2dw12_ctrl7_t, "drdy_pulsed"),
                {E.AIS2DW12_DRDY_LATCHED, E.AIS2DW12_DRDY_PULSED},
                E.AIS2DW12_DRDY_LATCHED)]

---------------------------------------------------------------------------
(* AIS2DW12_Filters (continued) *)

ais2dw12_bw_filt_t ==
  [AIS2DW12_ODR_DIV_2 |-> 0, AIS2DW12_ODR_DIV_4 |-> 1,
   AIS2DW12_ODR_DIV_10 |-> 2, AIS2DW12_ODR_DIV_20 |-> 3]

ais2dw12_filter_bandwidth_set(m0, val) ==
  LET m1 == ais2dw12_read_reg(m0, AIS2DW12_CTRL6, 1)
      reg == Put(m1.data[1], ais2dw12_ctrl6_t, "bw_filt", U8(val))
  IN  IF m1.ret = 0 THEN ais2dw12_write_reg(m1, AIS2DW12_CTRL6, reg) ELSE m1

ais2dw12_filter_bandwidth_get(m0) ==
  LET m1 == ais2dw12_read_reg(m0, AIS2DW12_CTRL6, 1)
      E == ais2dw12_bw_filt_t
  IN  [m1 EXCEPT !.val =
         Switch(Get(m1.data[1], ais2dw12_ctrl6_t, "bw_filt"),
                {E.AIS2DW12_ODR_DIV_2, E.AIS2DW12_ODR_DIV_4,
                 E.AIS2DW12_ODR_DIV_10, E.AIS2DW12_ODR_DIV_20},
                E.AIS2DW12_ODR_DIV_2)]

---------------------------------------------------------------------------
(* AIS2DW12_Serial_Interface *)

ais2dw12_sim_t ==
  [AIS2DW12_SPI_4_WIRE |-> 0, AIS2DW12_SPI_3_WIRE |-> 1]

ais2dw12_spi_mode_set(m0, val) ==
  LET m1 == ais2dw12_read_reg(m0, AIS2DW12_CTRL2, 1)
      reg == Put(m1.data[1], ais2dw12_ctrl2_t, "sim", U8(val))
  IN  IF m1.ret = 0 THEN ais2dw12_write_reg(m1, AIS2DW12_CTRL2, reg) ELSE m1

ais2dw12_spi_mode_get(m0) ==
  LET m1 == ais2dw12_read_reg(m0, AIS2DW12_CTRL2, 1)
      E == ais2dw12_sim_t
  IN  [m1 EXCEPT !.val =
         Switch(Get(m1.data[1], ais2dw12_ctrl2_t, "sim"),
                {E.AIS2DW12_SPI_4_WIRE, E.AIS2DW12_SPI_3_WIRE},
                E.AIS2DW12_SPI_4_WIRE)]

ais2dw12_i2c_disable_t ==
  [AIS2DW12_I2C_ENABLE |-> 0, AIS2DW12_I2C_DISABLE |-> 1]

ais2dw12_i2c_interface_set(m0, val) ==
  LET m1 == ais2dw12_read_reg(m0, AIS2DW12_CTRL2, 1)
      reg == Put(m1.data[1], ais2dw12_ctrl2_t, "i2c_disable", U8(val))
  IN  IF m1.ret = 0 THEN ais2dw12_write_reg(m1, AIS2DW12_CTRL2, reg) ELSE m1

ais2dw12_i2c_interface_get(m0) ==
  LET m1 == ais2dw12_read_reg(m0, AIS2DW12_CTRL2, 1)
      E == ais2dw12_i2c_disable_t
  IN  [m1 EXCEPT !.val =
         Switch(Get(m1.data[1], ais2dw12_ctrl2_t, "i2c_disable"),
                {E.AIS2DW12_I2C_ENABLE, E.AIS2DW12_I2C_DISABLE},
                E.AIS2DW12_I2C_ENABLE)]

ais2dw12_cs_pu_disc_t ==
  [AIS2DW12_PULL_UP_CONNECT |-> 0, AIS2DW12_PULL_UP_DISCONNECT |-> 1]

ais2dw12_cs_mode_set(m0, val) ==
  LET m1 == ais2dw12_read_reg(m0, AIS2DW12_CTRL2, 1)
      reg == Put(m1.data[1], ais2dw12_ctrl2_t, "cs_pu_disc", U8(val))
  IN  IF m1.ret = 0 THEN ais2dw12_write_reg(m1, AIS2DW12_CTRL2, reg) ELSE m1

ais2dw12_cs_mode_get(m0) ==
  LET m1 == ais2dw12_read_reg(m0, AIS2DW12_CTRL2, 1)
      E == ais2dw12_cs_pu_disc_t
  IN  [m1 EXCEPT !.val =
         Switch(Get(m1.data[1], ais2dw12_ctrl2_t, "cs_pu_disc"),
                {E.AIS2DW12_PULL_UP_CONNECT, E.AIS2DW12_PULL_UP_DISCONNECT},
                E.AIS2DW12_PULL_UP_CONNECT)]

---------------------------------------------------------------------------
(* AIS2DW12_Interrupt_Pins (continued) *)

ais2dw12_h_lactive_t ==
  [AIS2DW12_ACTIVE_HIGH |-> 0, AIS2DW12_ACTIVE_LOW |-> 1]

ais2dw12_pin_polarity_set(m0, val) ==
  LET m1 == ais2dw12_read_reg(m0, AIS2DW12_CTRL3, 1)
      reg == Put(m1.data[1], ais2dw12_ctrl3_t, "h_lactive", U8(val))
  IN  IF m1.ret = 0 THEN ais2dw12_write_reg(m1, AIS2DW12_CTRL3, reg) ELSE m1

ais2dw12_pin_polarity_get(m0) ==
  LET m1 == ais2dw12_read_reg(m0, AIS2DW12_CTRL3, 1)
      E == ais2dw12_h_lactive_t
  IN  [m1 EXCEPT !.val =
         Switch(Get(m1.data[1], ais2dw12_ctrl3_t, "h_lactive"),
                {E.AIS2DW12_ACTIVE_HIGH, E.AIS2DW12_ACTIVE_LOW},
                E.AIS2DW12_ACTIVE_HIGH)]

ais2dw12_lir_t ==
  [AIS2DW12_INT_PULSED |-> 0, AIS2DW12_INT_LATCHED |-> 1]

ais2dw12_int_notification_set(m0, val) ==
  LET m1 == ais2dw12_read_reg(m0, AIS2DW12_CTRL3, 1)
      reg == Put(m1.data[1], ais2dw12_ctrl3_t, "lir", U8(val))
  IN  IF m1.ret = 0 THEN ais2dw12_write_reg(m1, AIS2DW12_CTRL3, reg) ELSE m1

ais2dw12_int_notification_get(m0) ==
  LET m1 == ais2dw12_read_reg(m0, AIS2DW12_CTRL3, 1)
      E == ais2dw12_lir_t
  IN  [m1 EXCEPT !.val =
         Switch(Get(m1.data[1], ais2dw12_ctrl3_t, "lir"),
                {E.AIS2DW12_INT_PULSED, E.AIS2DW12_INT_LATCHED},
                E.AIS2DW12_INT_PULSED)]

ais2dw12_pp_od_t ==
  [AIS2DW12_PUSH_PULL |-> 0, AIS2DW12_OPEN_DRAIN |-> 1]

ais2dw12_pin_mode_set(m0, val) ==
  LET m1 == ais2dw12_read_reg(m0, AIS2DW12_CTRL3, 1)
      reg == Put(m1.data[1], ais2dw12_ctrl3_t, "pp_od", U8(val))
  IN  IF m1.ret = 0 THEN ais2dw12_write_reg(m1, AIS2DW12_CTRL3, reg) ELSE m1

ais2dw12_pin_mode_get(m0) ==
  LET m1 == ais2dw12_read_reg(m0, AIS2DW12_CTRL3, 1)
      E == ais2dw12_pp_od_t
  IN  [m1 EXCEPT !.val =
         Switch(Get(m1.data[1], ais2dw12_ctrl3_t, "pp_od"),
                {E.AIS2DW12_PUSH_PULL, E.AIS2DW12_OPEN_DRAIN},
                E.AIS2DW12_PUSH_PULL)]

---------------------------------------------------------------------------
(* AIS2DW12_Wake_Up_Event *)

ais2dw12_usr_off_on_wu_t ==
  [AIS2DW12_HP_FEED |-> 0, AIS2DW12_USER_OFFSET_FEED |-> 1]

ais2dw12_wkup_feed_data_set(m0, val) ==
  LET m1 == ais2dw12_read_reg(m0, AIS2DW12_CTRL7, 1)
      reg == Put(m1.data[1], ais2dw12_ctrl7_t, "usr_off_on_wu", U8(val))
  IN  IF m1.ret = 0 THEN ais2dw12_write_reg(m1, AIS2DW12_CTRL7, reg) ELSE m1

ais2dw12_wkup_feed_data_get(m0) ==
  LET m1 == ais2dw12_read_reg(m0, AIS2DW12_CTRL7, 1)
      E == ais2dw12_usr_off_on_wu_t
  IN  [m1 EXCEPT !.val =
         Switch(Get(m1.data[1], ais2dw12_ctrl7_t, "usr_off_on_wu"),
                {E.AIS2DW12_HP_FEED, E.AIS2DW12_USER_OFFSET_FEED},
                E.AIS2DW12_HP_FEED)]

---------------------------------------------------------------------------
(* AIS2DW12_Six_Position_Detection *)

ais2dw12_lpass_on6d_t ==
  [AIS2DW12_ODR_DIV_2_FEED |-> 0, AIS2DW12_LPF2_FEED |-> 1]

ais2dw12_6d_feed_data_set(m0, val) ==
  LET m1 == ais2dw12_read_reg(m0, AIS2DW12_CTRL7, 1)
      reg == Put(m1.data[1], ais2dw12_ctrl7_t, "lpass_on6d", U8(val))
  IN  IF m1.ret = 0 THEN ais2dw12_write_reg(m1, AIS2DW12_CTRL7, reg) ELSE m1

ais2dw12_6d_feed_data_get(m0) ==
  LET m1 == ais2dw12_read_reg(m0, AIS2DW12_CTRL7, 1)
      E == ais2dw12_lpass_on6d_t
  IN  [m1 EXCEPT !.val =
         Switch(Get(m1.data[1], ais2dw12_ctrl7_t, "lpass_on6d"),
                {E.AIS2DW12_ODR_DIV_2_FEED, E.AIS2DW12_LPF2_FEED},
                E.AIS2DW12_ODR_DIV_2_FEED)]

---------------------------------------------------------------------------
(* AIS2DW12_free_fall (continued) *)

ais2dw12_ff_ths_t ==
  [AIS2DW12_FF_TSH_5LSb_FS2g |-> 0, AIS2DW12_FF_TSH_7LSb_FS2g |-> 1,
   AIS2DW12_FF_TSH_8LSb_FS2g |-> 2, AIS2DW12_FF_TSH_10LSb_FS2g |-> 3,
   AIS2DW12_FF_TSH_11LSb_FS2g |-> 4, AIS2DW12_FF_TSH_13LSb_FS2g |-> 5,
   AIS2DW12_FF_TSH_15LSb_FS2g |-> 6, AIS2DW12_FF_TSH_16LSb_FS2g |-> 7]

ais2dw12_ff_threshold_set(m0, val) ==
  LET m1 == ais2dw12_read_reg(m0, AIS2DW12_FREE_FALL, 1)
      reg == Put(m1.data[1], ais2dw12_free_fall_t, "ff_ths", U8(val))
  IN  IF m1.ret = 0 THEN ais2dw12_write_reg(m1, AIS2DW12_FREE_FALL, reg) ELSE m1

ais2dw12_ff_threshold_get(m0) ==
  LET m1 == ais2dw12_read_reg(m0, AIS2DW12_FREE_FALL, 1)
      E == ais2dw12_ff_ths_t
  IN  [m1 EXCEPT !.val =
         Switch(Get(m1.data[1], ais2dw12_free_fall_t, "ff_ths"),
                {E.AIS2DW12_FF_TSH_5LSb_FS2g, E.AIS2DW12_FF_TSH_7LSb_FS2g,
                 E.AIS2DW12_FF_TSH_8LSb_FS2g, E.AIS2DW12_FF_TSH_10LSb_FS2g,
                 E.AIS2DW12_FF_TSH_11LSb_FS2g, E.AIS2DW12_FF_TSH_13LSb_FS2g,
                 E.AIS2DW12_FF_TSH_15LSb_FS2g, E.AIS2DW12_FF_TSH_16LSb_FS2g},
                E.AIS2DW12_FF_TSH_5LSb_FS2g)]

---------------------------------------------------------------------------
(* AIS2DW12_Fifo *)

ais2dw12_fmode_t ==
  [AIS2DW12_BYPASS_MODE |-> 0, AIS2DW12_FIFO_MODE |-> 1,
   AIS2DW12_STREAM_TO_FIFO_MODE |-> 3, AIS2DW12_BYPASS_TO_STREAM_MODE |-> 4,
   AIS2DW12_STREAM_MODE |-> 6]

ais2dw12_fifo_mode_set(m0, val) ==
  LET m1 == ais2dw12_read_reg(m0, AIS2DW12_FIFO_CTRL, 1)
      reg == Put(m1.data[1], ais2dw12_fifo_ctrl_t, "fmode", U8(val))
  IN  IF m1.ret = 0 THEN ais2dw12_write_reg(m1, AIS2DW12_FIFO_CTRL, reg) ELSE m1

\* ais2dw12_fifo_mode_get without the case of AIS2DW12_STREAM_MODE
fifo_mode_get_stream_case_missing(m0) ==
  LET m1 == ais2dw12_read_reg(m0, AIS2DW12_FIFO_CTRL, 1)
      E == ais2dw12_fmode_t
  IN  [m1 EXCEPT !.val =
         Switch(Get(m1.data[1], ais2dw12_fifo_ctrl_t, "fmode"),
                {E.AIS2DW12_BYPASS_MODE, E.AIS2DW12_FIFO_MODE,
                 E.AIS2DW12_STREAM_TO_FIFO_MODE, E.AIS2DW12_BYPASS_TO_STREAM_MODE},
                E.AIS2DW12_BYPASS_MODE)]

ais2dw12_fifo_mode_get(m0) ==
  LET m1 == ais2dw12_read_reg(m0, AIS2DW12_FIFO_CTRL, 1)
      E == ais2dw12_fmode_t
  IN  [m1 EXCEPT !.val =
         Switch(Get(m1.data[1], ais2dw12_fifo_ctrl_t, "fmode"),
                {E.AIS2DW12_BYPASS_MODE, E.AIS2DW12_FIFO_MODE,
                 E.AIS2DW12_STREAM_TO_FIFO_MODE,
                 E.AIS2DW12_BYPASS_TO_STREAM_MODE, E.AIS2DW12_STREAM_MODE},
                E.AIS2DW12_BYPASS_MODE)]

---------------------------------------------------------------------------
(* Functions with a uint8_t or a register-structure argument *)

\* a pointer and the byte it points at
Ptr(name, at) == [ptr |-> name, at |-> at]

\* *target = *source when both pointers are present: the byte at target
\* after the call
bytecpy(target, source) ==
  IF target.ptr # NULL /\ source.ptr # NULL THEN source.at ELSE target.at

\* conversion of an int to int16_t
I16(x) == ((x + 32768) % 65536) - 32768

\* *val = (int16_t)high; *val = (*val * 256) + (int16_t)low
RawSample(low, high) == I16(I16(high) * 256 + I16(low))

\* a single-register getter never tests ret before it assigns *val: after
\* a failed read *val is taken from the uninitialized local structure
\* ais2dw12_block_data_update_set writing the bit without reading CTRL2
block_data_update_set_unread(m0, val) ==
  ais2dw12_write_reg(m0, AIS2DW12_CTRL2, Put(0, ais2dw12_ctrl2_t, "bdu", U8(val)))

ais2dw12_block_data_update_set(m0, val) ==
  LET m1 == ais2dw12_read_reg(m0, AIS2DW12_CTRL2, 1)
      reg == Put(m1.data[1], ais2dw12_ctrl2_t, "bdu", U8(val))
  IN  IF m1.ret = 0 THEN ais2dw12_write_reg(m1, AIS2DW12_CTRL2, reg) ELSE m1

ais2dw12_block_data_update_get(m0) ==
  LET m1 == ais2dw12_read_reg(m0, AIS2DW12_CTRL2, 1)
  IN  [m1 EXCEPT !.val = Get(m1.data[1], ais2dw12_ctrl2_t, "bdu")]

\* the register is read into the caller's structure: a failed read leaves
\* it as the caller passed it
ais2dw12_status_reg_get(m0) ==
  LET m1 == ais2dw12_read_reg(m0, AIS2DW12_STATUS, 1)
  IN  IF m1.ret = 0 THEN [m1 EXCEPT !.val = m1.data[1]] ELSE m1

ais2dw12_flag_data_ready_get(m0) ==
  LET m1 == ais2dw12_read_reg(m0, AIS2DW12_STATUS, 1)
  IN  [m1 EXCEPT !.val = Get(m1.data[1], ais2dw12_status_t, "drdy")]

\* ais2dw12_all_sources_get copying the four structures from reg[0..3]
all_sources_get_contiguous(m0) ==
  LET m1 == ais2dw12_read_reg(m0, AIS2DW12_STATUS_DUP, 5)
      reg == m1.data
  IN  [m1 EXCEPT !.val =
         [status_dup |-> bytecpy(Ptr("val->status_dup", m0.val),
                                 Ptr("reg", reg[1])),
          wake_up_src |-> bytecpy(Ptr("val->wake_up_src", m0.val),
                                 Ptr("reg", reg[2])),
          sixd_src |-> bytecpy(Ptr("val->sixd_src", m0.val),
                                 Ptr("reg", reg[3])),
          all_int_src |-> bytecpy(Ptr("val->all_int_src", m0.val),
                                 Ptr("reg", reg[4]))]]

\* one read of 5 bytes; the four structures are copied from reg[0],
\* reg[1], reg[3], reg[4] whatever the read returned
ais2dw12_all_sources_get(m0) ==
  LET m1 == ais2dw12_read_reg(m0, AIS2DW12_STATUS_DUP, 5)
      reg == m1.data
  IN  [m1 EXCEPT !.val =
         [status_dup |-> bytecpy(Ptr("val->status_dup", m0.val),
                                 Ptr("reg", reg[1])),
          wake_up_src |-> bytecpy(Ptr("val->wake_up_src", m0.val),
                                 Ptr("reg", reg[2])),
          sixd_src |-> bytecpy(Ptr("val->sixd_src", m0.val),
                                 Ptr("reg", reg[4])),
          all_int_src |-> bytecpy(Ptr("val->all_int_src", m0.val),
                                 Ptr("reg", reg[5]))]]

ais2dw12_usr_offset_x_set(m0, buff) == ais2dw12_write_reg(m0, AIS2DW12_X_OFS_USR, buff)

ais2dw12_usr_offset_x_get(m0) ==
  LET m1 == ais2dw12_read_reg(m0, AIS2DW12_X_OFS_USR, 1)
  IN  IF m1.ret = 0 THEN [m1 EXCEPT !.val = m1.data[1]] ELSE m1

ais2dw12_usr_offset_y_set(m0, buff) == ais2dw12_write_reg(m0, AIS2DW12_Y_OFS_USR, buff)

ais2dw12_usr_offset_y_get(m0) ==
  LET m1 == ais2dw12_read_reg(m0, AIS2DW12_Y_OFS_USR, 1)
  IN  IF m1.ret = 0 THEN [m1 EXCEPT !.val = m1.data[1]] ELSE m1

ais2dw12_usr_offset_z_set(m0, buff) == ais2dw12_write_reg(m0, AIS2DW12_Z_OFS_USR, buff)

ais2dw12_usr_offset_z_get(m0) ==
  LET m1 == ais2dw12_read_reg(m0, AIS2DW12_Z_OFS_USR, 1)
  IN  IF m1.ret = 0 THEN [m1 EXCEPT !.val = m1.data[1]] ELSE m1

\* ais2dw12_temperature_raw_get taking buff[0] as the high byte
temperature_raw_get_bytes_swapped(m0) ==
  LET m1 == ais2dw12_read_reg(m0, AIS2DW12_OUT_T_L, 2)
      buff == m1.data
  IN  [m1 EXCEPT !.val = RawSample(buff[2], buff[1])]

ais2dw12_temperature_raw_get(m0) ==
  LET m1 == ais2dw12_read_reg(m0, AIS2DW12_OUT_T_L, 2)
      buff == m1.data
  IN  [m1 EXCEPT !.val = RawSample(buff[1], buff[2])]

\* ais2dw12_acceleration_raw_get taking the high byte of Y from buff[1]
acceleration_raw_get_y_high_from_x(m0) ==
  LET m1 == ais2dw12_read_reg(m0, AIS2DW12_OUT_X_L, 6)
      buff == m1.data
  IN  [m1 EXCEPT !.val = <<RawSample(buff[1], buff[2]),
                           RawSample(buff[3], buff[2]),
                           RawSample(buff[5], buff[6])>>]

ais2dw12_acceleration_raw_get(m0) ==
  LET m1 == ais2dw12_read_reg(m0, AIS2DW12_OUT_X_L, 6)
      buff == m1.data
  IN  [m1 EXCEPT !.val = <<RawSample(buff[1], buff[2]),
                           RawSample(buff[3], buff[4]),
                           RawSample(buff[5], buff[6])>>]

ais2dw12_device_id_get(m0) ==
  LET m1 == ais2dw12_read_reg(m0, AIS2DW12_WHO_AM_I, 1)
  IN  IF m1.ret = 0 THEN [m1 EXCEPT !.val = m1.data[1]] ELSE m1

\* ais2dw12_auto_increment_set building the register from a cleared byte
auto_increment_set_from_zero(m0, val) ==
  LET m1 == ais2dw12_read_reg(m0, AIS2DW12_CTRL2, 1)
      reg == Put(0, ais2dw12_ctrl2_t, "if_add_inc", U8(val))
  IN  IF m1.ret = 0 THEN ais2dw12_write_reg(m1, AIS2DW12_CTRL2, reg) ELSE m1

ais2dw12_auto_increment_set(m0, val) ==
  LET m1 == ais2dw12_read_reg(m0, AIS2DW12_CTRL2, 1)
      reg == Put(m1.data[1], ais2dw12_ctrl2_t, "if_add_inc", U8(val))
  IN  IF m1.ret = 0 THEN ais2dw12_write_reg(m1, AIS2DW12_CTRL2, reg) ELSE m1

ais2dw12_auto_increment_get(m0) ==
  LET m1 == ais2dw12_read_reg(m0, AIS2DW12_CTRL2, 1)
  IN  [m1 EXCEPT !.val = Get(m1.data[1], ais2dw12_ctrl2_t, "if_add_inc")]

ais2dw12_reset_set(m0, val) ==
  LET m1 == ais2dw12_read_reg(m0, AIS2DW12_CTRL2, 1)
      reg == Put(m1.data[1], ais2dw12_ctrl2_t, "soft_reset", U8(val))
  IN  IF m1.ret = 0 THEN ais2dw12_write_reg(m1, AIS2DW12_CTRL2, reg) ELSE m1

ais2dw12_reset_get(m0) ==
  LET m1 == ais2dw12_read_reg(m0, AIS2DW12_CTRL2, 1)
  IN  [m1 EXCEPT !.val = Get(m1.data[1], ais2dw12_ctrl2_t, "soft_reset")]

ais2dw12_boot_set(m0, val) ==
  LET m1 == ais2dw12_read_reg(m0, AIS2DW12_CTRL2, 1)
      reg == Put(m1.data[1], ais2dw12_ctrl2_t, "boot", U8(val))
  IN  IF m1.ret = 0 THEN ais2dw12_write_reg(m1, AIS2DW12_CTRL2, reg) ELSE m1

ais2dw12_boot_get(m0) ==
  LET m1 == ais2dw12_read_reg(m0, AIS2DW12_CTRL2, 1)
  IN  [m1 EXCEPT !.val = Get(m1.data[1], ais2dw12_ctrl2_t, "boot")]

ais2dw12_reference_mode_set(m0, val) ==
  LET m1 == ais2dw12_read_reg(m0, AIS2DW12_CTRL7, 1)
      reg == Put(m1.data[1], ais2dw12_ctrl7_t, "hp_ref_mode", U8(val))
  IN  IF m1.ret = 0 THEN ais2dw12_write_reg(m1, AIS2DW12_CTRL7, reg) ELSE m1

ais2dw12_reference_mode_get(m0) ==
  LET m1 == ais2dw12_read_reg(m0, AIS2DW12_CTRL7, 1)
  IN  [m1 EXCEPT !.val = Get(m1.data[1], ais2dw12_ctrl7_t, "hp_ref_mode")]

ais2dw12_pin_int1_route_get(m0) ==
  LET m1 == ais2dw12_read_reg(m0, AIS2DW12_CTRL4_INT1, 1)
  IN  IF m1.ret = 0 THEN [m1 EXCEPT !.val = m1.data[1]] ELSE m1

ais2dw12_pin_int2_route_get(m0) ==
  LET m1 == ais2dw12_read_reg(m0, AIS2DW12_CTRL5_INT2, 1)
  IN  IF m1.ret = 0 THEN [m1 EXCEPT !.val = m1.data[1]] ELSE m1

ais2dw12_all_on_int1_set(m0, val) ==
  LET m1 == ais2dw12_read_reg(m0, AIS2DW12_CTRL7, 1)
      reg == Put(m1.data[1], ais2dw12_ctrl7_t, "int2_on_int1", U8(val))
  IN  IF m1.ret = 0 THEN ais2dw12_write_reg(m1, AIS2DW12_CTRL7, reg) ELSE m1

ais2dw12_all_on_int1_get(m0) ==
  LET m1 == ais2dw12_read_reg(m0, AIS2DW12_CTRL7, 1)
  IN  [m1 EXCEPT !.val = Get(m1.data[1], ais2dw12_ctrl7_t, "int2_on_int1")]

\* ais2dw12_wkup_threshold_set adding val to the register without the
\* truncation of a 6-bit field
wkup_threshold_set_untruncated(m0, val) ==
  LET m1 == ais2dw12_read_reg(m0, AIS2DW12_WAKE_UP_THS, 1)
      reg == (m1.data[1] - Get(m1.data[1], ais2dw12_wake_up_ths_t, "wk_ths")
                + U8(val)) % 256
  IN  IF m1.ret = 0 THEN ais2dw12_write_reg(m1, AIS2DW12_WAKE_UP_THS, reg) ELSE m1

ais2dw12_wkup_threshold_set(m0, val) ==
  LET m1 == ais2dw12_read_reg(m0, AIS2DW12_WAKE_UP_THS, 1)
      reg == Put(m1.data[1], ais2dw12_wake_up_ths_t, "wk_ths", U8(val))
  IN  IF m1.ret = 0 THEN ais2dw12_write_reg(m1, AIS2DW12_WAKE_UP_THS, reg) ELSE m1

ais2dw12_wkup_threshold_get(m0) ==
  LET m1 == ais2dw12_read_reg(m0, AIS2DW12_WAKE_UP_THS, 1)
  IN  [m1 EXCEPT !.val = Get(m1.data[1], ais2dw12_wake_up_ths_t, "wk_ths")]

ais2dw12_wkup_dur_set(m0, val) ==
  LET m1 == ais2dw12_read_reg(m0, AIS2DW12_WAKE_UP_DUR, 1)
      reg == Put(m1.data[1], ais2dw12_wake_up_dur_t, "wake_dur", U8(val))
  IN  IF m1.ret = 0 THEN ais2dw12_write_reg(m1, AIS2DW12_WAKE_UP_DUR, reg) ELSE m1

ais2dw12_wkup_dur_get(m0) ==
  LET m1 == ais2dw12_read_reg(m0, AIS2DW12_WAKE_UP_DUR, 1)
  IN  [m1 EXCEPT !.val = Get(m1.data[1], ais2dw12_wake_up_dur_t, "wake_dur")]

ais2dw12_act_sleep_dur_set(m0, val) ==
  LET m1 == ais2dw12_read_reg(m0, AIS2DW12_WAKE_UP_DUR, 1)
      reg == Put(m1.data[1], ais2dw12_wake_up_dur_t, "sleep_dur", U8(val))
  IN  IF m1.ret = 0 THEN ais2dw12_write_reg(m1, AIS2DW12_WAKE_UP_DUR, reg) ELSE m1

ais2dw12_act_sleep_dur_get(m0) ==
  LET m1 == ais2dw12_read_reg(m0, AIS2DW12_WAKE_UP_DUR, 1)
  IN  [m1 EXCEPT !.val = Get(m1.data[1], ais2dw12_wake_up_dur_t, "sleep_dur")]

ais2dw12_6d_threshold_set(m0, val) ==
  LET m1 == ais2dw12_read_reg(m0, AIS2DW12_SIXD_THS, 1)
      reg == Put(m1.data[1], ais2dw12_sixd_ths_t, "_6d_ths", U8(val))
  IN  IF m1.ret = 0 THEN ais2dw12_write_reg(m1, AIS2DW12_SIXD_THS, reg) ELSE m1

ais2dw12_6d_threshold_get(m0) ==
  LET m1 == ais2dw12_read_reg(m0, AIS2DW12_SIXD_THS, 1)
  IN  [m1 EXCEPT !.val = Get(m1.data[1], ais2dw12_sixd_ths_t, "_6d_ths")]

ais2dw12_4d_mode_set(m0, val) ==
  LET m1 == ais2dw12_read_reg(m0, AIS2DW12_SIXD_THS, 1)
      reg == Put(m1.data[1], ais2dw12_sixd_ths_t, "_4d_en", U8(val))
  IN  IF m1.ret = 0 THEN ais2dw12_write_reg(m1, AIS2DW12_SIXD_THS, reg) ELSE m1

ais2dw12_4d_mode_get(m0) ==
  LET m1 == ais2dw12_read_reg(m0, AIS2DW12_SIXD_THS, 1)
  IN  [m1 EXCEPT !.val = Get(m1.data[1], ais2dw12_sixd_ths_t, "_4d_en")]

ais2dw12_6d_src_get(m0) ==
  LET m1 == ais2dw12_read_reg(m0, AIS2DW12_SIXD_SRC, 1)
  IN  IF m1.ret = 0 THEN [m1 EXCEPT !.val = m1.data[1]] ELSE m1

\* ais2dw12_ff_dur_get reading WAKE_UP_DUR only
ff_dur_get_free_fall_unread(m0) ==
  LET m1 == ais2dw12_read_reg(m0, AIS2DW12_WAKE_UP_DUR, 1)
      wake_up_dur == m1.data[1]
  IN  IF m1.ret = 0
      THEN [m1 EXCEPT !.val =
              U8(Shl(Get(wake_up_dur, ais2dw12_wake_up_dur_t, "ff_dur"), 5)
                 + Get(m1.junk, ais2dw12_free_fall_t, "ff_dur"))]
      ELSE m1

\* *val is assigned inside the first read's success branch, whatever the
\* second read returned
ais2dw12_ff_dur_get(m0) ==
  LET m1 == ais2dw12_read_reg(m0, AIS2DW12_WAKE_UP_DUR, 1)
      wake_up_dur == m1.data[1]
      m2 == ais2dw12_read_reg(m1, AIS2DW12_FREE_FALL, 1)
      free_fall == m2.data[1]
  IN  IF m1.ret = 0
      THEN [m2 EXCEPT !.val =
              U8(Shl(Get(wake_up_dur, ais2dw12_wake_up_dur_t, "ff_dur"), 5)
                 + Get(free_fall, ais2dw12_free_fall_t, "ff_dur"))]
      ELSE m1

ais2dw12_fifo_watermark_set(m0, val) ==
  LET m1 == ais2dw12_read_reg(m0, AIS2DW12_FIFO_CTRL, 1)
      reg == Put(m1.data[1], ais2dw12_fifo_ctrl_t, "fth", U8(val))
  IN  IF m1.ret = 0 THEN ais2dw12_write_reg(m1, AIS2DW12_FIFO_CTRL, reg) ELSE m1

ais2dw12_fifo_watermark_get(m0) ==
  LET m1 == ais2dw12_read_reg(m0, AIS2DW12_FIFO_CTRL, 1)
  IN  [m1 EXCEPT !.val = Get(m1.data[1], ais2dw12_fifo_ctrl_t, "fth")]

ais2dw12_fifo_data_level_get(m0) ==
  LET m1 == ais2dw12_read_reg(m0, AIS2DW12_FIFO_SAMPLES, 1)
  IN  [m1 EXCEPT !.val = Get(m1.data[1], ais2dw12_fifo_samples_t, "diff")]

ais2dw12_fifo_ovr_flag_get(m0) ==
  LET m1 == ais2dw12_read_reg(m0, AIS2DW12_FIFO_SAMPLES, 1)
  IN  [m1 EXCEPT !.val = Get(m1.data[1], ais2dw12_fifo_samples_t, "fifo_ovr")]

ais2dw12_fifo_wtm_flag_get(m0) ==
  LET m1 == ais2dw12_read_reg(m0, AIS2DW12_FIFO_SAMPLES, 1)
  IN  [m1 EXCEPT !.val = Get(m1.data[1], ais2dw12_fifo_samples_t, "fifo_fth")]

---------------------------------------------------------------------------
(* The simulated register store and the calls made on it *)

\* byte patterns pre-loaded in the store
InitBytes == {(i * 85) % 256 : i \in 0..MaxSeed}

\* contents of a buffer the driver declared and nothing has written
JunkBytes == {90, 165}

\* bytes passed as the routing structure of a pin: the seed patterns, each
\* routed flag alone, and the bytes with every flag but the routed ones
RouteVals == InitBytes \cup {16, 32, 64, 128, 79, 63}

\* durations passed to ff_dur_set
FfDurVals == {0, 1, 31, 32, 33, 63, 64, 255}

\* values passed for a one-bit property
FlagVals == {PROPERTY_DISABLE, PROPERTY_ENABLE}

\* values passed for a property of several bits or of a whole byte: inside
\* and beyond the width of the field
FieldVals == {0, 2, 21, 255}

\* the seed each register is pre-loaded with: registers one function reads
\* together take different seeds
SeedOf ==
  [a \in Addr |->
     CASE a \in {AIS2DW12_CTRL1, AIS2DW12_CTRL4_INT1, AIS2DW12_CTRL6,
                 AIS2DW12_WAKE_UP_THS} -> 0
       [] a \in {AIS2DW12_CTRL2, AIS2DW12_CTRL5_INT2, AIS2DW12_WAKE_UP_DUR,
                 AIS2DW12_FIFO_CTRL} -> 1
       [] OTHER -> 2]

Init ==
  /\ \E s \in [0..2 -> InitBytes] : regs = [a \in Addr |-> s[SeedOf[a]]]
  /\ hist = <<>>
  /\ threads = <<>>

\* the machine at the entry of a call
Entry(ctx, plan, junk) ==
  [ctx |-> ctx, regs |-> regs, plan |-> plan, bus |-> <<>>, ret |-> 0,
   data |-> <<junk>>, junk |-> junk, val |-> -1]

\* the call returns: the store holds what the call wrote and the call is
\* recorded with its argument, status, output, bus log and the store it
\* found
Return(op, arg, m) ==
  /\ regs' = m.regs
  /\ hist' = Append(hist, [op |-> op, arg |-> arg, ctx |-> m.ctx,
                           ret |-> m.ret, val |-> m.val, bus |-> m.bus,
                           pre |-> regs])
  /\ UNCHANGED threads

\* one call of a public function on the pre-loaded store, with a present or
\* an absent context and any statuses of the transport: n is the number of
\* statuses drawn, F the function applied to the machine at entry
Call(op, arg, n, F(_)) ==
  /\ hist = <<>>
  /\ \E ctx \in {VALID, NULL}, junk \in JunkBytes :
       \E plan \in IF ctx = NULL THEN {[i \in 1..n |-> 0]} ELSE Plans(n) :
         Return(op, arg, F(Entry(ctx, plan, junk)))

Next ==
  \/ \E val \in Members(ais2dw12_mode_t) :
       Call("power_mode_set", val, 2, LAMBDA m : ais2dw12_power_mode_set(m, val))
  \/ Call("power_mode_get", 0, 1, LAMBDA m : ais2dw12_power_mode_get(m))
  \/ \E val \in Members(ais2dw12_odr_t) :
       Call("data_rate_set", val, 4, LAMBDA m : ais2dw12_data_rate_set(m, val))
  \/ Call("data_rate_get", 0, 2, LAMBDA m : ais2dw12_data_rate_get(m))
  \/ \E val \in Members(ais2dw12_fs_t) :
       Call("full_scale_set", val, 2, LAMBDA m : ais2dw12_full_scale_set(m, val))
  \/ Call("full_scale_get", 0, 1, LAMBDA m : ais2dw12_full_scale_get(m))
  \/ \E val \in Members(ais2dw12_fds_t) :
       Call("filter_path_set", val, 4, LAMBDA m : ais2dw12_filter_path_set(m, val))
  \/ Call("filter_path_get", 0, 2, LAMBDA m : ais2dw12_filter_path_get(m))
  \/ \E val \in RouteVals :
       Call("pin_int1_route_set", val, 4, LAMBDA m : ais2dw12_pin_int1_route_set(m, val))
  \/ \E val \in RouteVals :
       Call("pin_int2_route_set", val, 4, LAMBDA m : ais2dw12_pin_int2_route_set(m, val))
  \/ \E val \in Members(ais2dw12_sleep_on_t) :
       Call("act_mode_set", val, 4, LAMBDA m : ais2dw12_act_mode_set(m, val))
  \/ Call("act_mode_get", 0, 2, LAMBDA m : ais2dw12_act_mode_get(m))
  \/ \E val \in FfDurVals :
       Call("ff_dur_set", val, 4, LAMBDA m : ais2dw12_ff_dur_set(m, val))
  \/ \E val \in Members(ais2dw12_usr_off_w_t) :
       Call("offset_weight_set", val, 2, LAMBDA m : ais2dw12_offset_weight_set(m, val))
  \/ Call("offset_weight_get", 0, 1, LAMBDA m : ais2dw12_offset_weight_get(m))
  \/ \E val \in Members(ais2dw12_st_t) :
       Call("self_test_set", val, 2, LAMBDA m : ais2dw12_self_test_set(m, val))
  \/ Call("self_test_get", 0, 1, LAMBDA m : ais2dw12_self_test_get(m))
  \/ \E val \in Members(ais2dw12_drdy_pulsed_t) :
       Call("data_ready_mode_set", val, 2, LAMBDA m : ais2dw12_data_ready_mode_set(m, val))
  \/ Call("data_ready_mode_get", 0, 1, LAMBDA m : ais2dw12_data_ready_mode_get(m))
  \/ \E val \in Members(ais2dw12_bw_filt_t) :
       Call("filter_bandwidth_set", val, 2, LAMBDA m : ais2dw12_filter_bandwidth_set(m, val))
  \/ Call("filter_bandwidth_get", 0, 1, LAMBDA m : ais2dw12_filter_bandwidth_get(m))
  \/ \E val \in Members(ais2dw12_sim_t) :
       Call("spi_mode_set", val, 2, LAMBDA m : ais2dw12_spi_mode_set(m, val))
  \/ Call("spi_mode_get", 0, 1, LAMBDA m : ais2dw12_spi_mode_get(m))
  \/ \E val \in Members(ais2dw12_i2c_disable_t) :
       Call("i2c_interface_set", val, 2, LAMBDA m : ais2dw12_i2c_interface_set(m, val))
  \/ Call("i2c_interface_get", 0, 1, LAMBDA m : ais2dw12_i2c_interface_get(m))
  \/ \E val \in Members(ais2dw12_cs_pu_disc_t) :
       Call("cs_mode_set", val, 2, LAMBDA m : ais2dw12_cs_mode_set(m, val))
  \/ Call("cs_mode_get", 0, 1, LAMBDA m : ais2dw12_cs_mode_get(m))
  \/ \E val \in Members(ais2dw12_h_lactive_t) :
       Call("pin_polarity_set", val, 2, LAMBDA m : ais2dw12_pin_polarity_set(m, val))
  \/ Call("pin_polarity_get", 0, 1, LAMBDA m : ais2dw12_pin_polarity_get(m))
  \/ \E val \in Members(ais2dw12_lir_t) :
       Call("int_notification_set", val, 2, LAMBDA m : ais2dw12_int_notification_set(m, val))
  \/ Call("int_notification_get", 0, 1, LAMBDA m : ais2dw12_int_notification_get(m))
  \/ \E val \in Members(ais2dw12_pp_od_t) :
       Call("pin_mode_set", val, 2, LAMBDA m : ais2dw12_pin_mode_set(m, val))
  \/ Call("pin_mode_get", 0, 1, LAMBDA m : ais2dw12_pin_mode_get(m))
  \/ \E val \in Members(ais2dw12_usr_off_on_wu_t) :
       Call("wkup_feed_data_set", val, 2, LAMBDA m : ais2dw12_wkup_feed_data_set(m, val))
  \/ Call("wkup_feed_data_get", 0, 1, LAMBDA m : ais2dw12_wkup_feed_data_get(m))
  \/ \E val \in Members(ais2dw12_lpass_on6d_t) :
       Call("6d_feed_data_set", val, 2, LAMBDA m : ais2dw12_6d_feed_data_set(m, val))
  \/ Call("6d_feed_data_get", 0, 1, LAMBDA m : ais2dw12_6d_feed_data_get(m))
  \/ \E val \in Members(ais2dw12_ff_ths_t) :
       Call("ff_threshold_set", val, 2, LAMBDA m : ais2dw12_ff_threshold_set(m, val))
  \/ Call("ff_threshold_get", 0, 1, LAMBDA m : ais2dw12_ff_threshold_get(m))
  \/ \E val \in Members(ais2dw12_fmode_t) :
       Call("fifo_mode_set", val, 2, LAMBDA m : ais2dw12_fifo_mode_set(m, val))
  \/ Call("fifo_mode_get", 0, 1, LAMBDA m : ais2dw12_fifo_mode_get(m))
  \/ \E val \in FlagVals :
       Call("block_data_update_set", val, 2, LAMBDA m : ais2dw12_block_data_update_set(m, val))
  \/ Call("block_data_update_get", 0, 1, LAMBDA m : ais2dw12_block_data_update_get(m))
  \/ \E val \in FlagVals :
       Call("auto_increment_set", val, 2, LAMBDA m : ais2dw12_auto_increment_set(m, val))
  \/ Call("auto_increment_get", 0, 1, LAMBDA m : ais2dw12_auto_increment_get(m))
  \/ \E val \in FlagVals :
       Call("reset_set", val, 2, LAMBDA m : ais2dw12_reset_set(m, val))
  \/ Call("reset_get", 0, 1, LAMBDA m : ais2dw12_reset_get(m))
  \/ \E val \in FlagVals :
       Call("boot_set", val, 2, LAMBDA m : ais2dw12_boot_set(m, val))
  \/ Call("boot_get", 0, 1, LAMBDA m : ais2dw12_boot_get(m))
  \/ \E val \in FlagVals :
       Call("reference_mode_set", val, 2, LAMBDA m : ais2dw12_reference_mode_set(m, val))
  \/ Call("reference_mode_get", 0, 1, LAMBDA m : ais2dw12_reference_mode_get(m))
  \/ \E val \in FlagVals :
       Call("all_on_int1_set", val, 2, LAMBDA m : ais2dw12_all_on_int1_set(m, val))
  \/ Call("all_on_int1_get", 0, 1, LAMBDA m : ais2dw12_all_on_int1_get(m))
  \/ \E val \in FlagVals :
       Call("4d_mode_set", val, 2, LAMBDA m : ais2dw12_4d_mode_set(m, val))
  \/ Call("4d_mode_get", 0, 1, LAMBDA m : ais2dw12_4d_mode_get(m))
  \/ \E val \in FieldVals :
       Call("wkup_threshold_set", val, 2, LAMBDA m : ais2dw12_wkup_threshold_set(m, val))
  \/ Call("wkup_threshold_get", 0, 1, LAMBDA m : ais2dw12_wkup_threshold_get(m))
  \/ \E val \in FieldVals :
       Call("wkup_dur_set", val, 2, LAMBDA m : ais2dw12_wkup_dur_set(m, val))
  \/ Call("wkup_dur_get", 0, 1, LAMBDA m : ais2dw12_wkup_dur_get(m))
  \/ \E val \in FieldVals :
       Call("act_sleep_dur_set", val, 2, LAMBDA m : ais2dw12_act_sleep_dur_set(m, val))
  \/ Call("act_sleep_dur_get", 0, 1, LAMBDA m : ais2dw12_act_sleep_dur_get(m))
  \/ \E val \in FieldVals :
       Call("6d_threshold_set", val, 2, LAMBDA m : ais2dw12_6d_threshold_set(m, val))
  \/ Call("6d_threshold_get", 0, 1, LAMBDA m : ais2dw12_6d_threshold_get(m))
  \/ \E val \in FieldVals :
       Call("fifo_watermark_set", val, 2, LAMBDA m : ais2dw12_fifo_watermark_set(m, val))
  \/ Call("fifo_watermark_get", 0, 1, LAMBDA m : ais2dw12_fifo_watermark_get(m))
  \/ \E buff \in FieldVals :
       Call("usr_offset_x_set", buff, 1, LAMBDA m : ais2dw12_usr_offset_x_set(m, buff))
  \/ Call("usr_offset_x_get", 0, 1, LAMBDA m : ais2dw12_usr_offset_x_get(m))
  \/ \E buff \in FieldVals :
       Call("usr_offset_y_set", buff, 1, LAMBDA m : ais2dw12_usr_offset_y_set(m, buff))
  \/ Call("usr_offset_y_get", 0, 1, LAMBDA m : ais2dw12_usr_offset_y_get(m))
  \/ \E buff \in FieldVals :
       Call("usr_offset_z_set", buff, 1, LAMBDA m : ais2dw12_usr_offset_z_set(m, buff))
  \/ Call("usr_offset_z_get", 0, 1, LAMBDA m : ais2dw12_usr_offset_z_get(m))
  \/ Call("status_reg_get", 0, 1, LAMBDA m : ais2dw12_status_reg_get(m))
  \/ Call("flag_data_ready_get", 0, 1, LAMBDA m : ais2dw12_flag_data_ready_get(m))
  \/ Call("all_sources_get", 0, 1, LAMBDA m : ais2dw12_all_sources_get(m))
  \/ Call("temperature_raw_get", 0, 1, LAMBDA m : ais2dw12_temperature_raw_get(m))
  \/ Call("acceleration_raw_get", 0, 1, LAMBDA m : ais2dw12_acceleration_raw_get(m))
  \/ Call("device_id_get", 0, 1, LAMBDA m : ais2dw12_device_id_get(m))
  \/ Call("pin_int1_route_get", 0, 1, LAMBDA m : ais2dw12_pin_int1_route_get(m))
  \/ Call("pin_int2_route_get", 0, 1, LAMBDA m : ais2dw12_pin_int2_route_get(m))
  \/ Call("6d_src_get", 0, 1, LAMBDA m : ais2dw12_6d_src_get(m))
  \/ Call("fifo_data_level_get", 0, 1, LAMBDA m : ais2dw12_fifo_data_level_get(m))
  \/ Call("fifo_ovr_flag_get", 0, 1, LAMBDA m : ais2dw12_fifo_ovr_flag_get(m))
  \/ Call("fifo_wtm_flag_get", 0, 1, LAMBDA m : ais2dw12_fifo_wtm_flag_get(m))
  \/ Call("ff_dur_get", 0, 2, LAMBDA m : ais2dw12_ff_dur_get(m))

Spec == Init /\ [][Next]_vars

---------------------------------------------------------------------------
(* A setter followed by its getter, on a transport that never fails *)

\* a first call with a present context and a transport that answers 0 to
\* each of its n transactions
SetCall(op, arg, n, F(_)) ==
  /\ hist = <<>>
  /\ \E junk \in JunkBytes :
       Return(op, arg, F(Entry(VALID, [i \in 1..n |-> 0], junk)))

\* the getter of the property the first call has set, on the store that
\* call left
GetCall(setter, op, n, F(_)) ==
  /\ Len(hist) = 1
  /\ hist[1].op = setter
  /\ \E junk \in JunkBytes :
       Return(op, 0, F(Entry(VALID, [i \in 1..n |-> 0], junk)))

NextRoundTrip ==
  \/ \E val \in Members(ais2dw12_mode_t) :
       SetCall("power_mode_set", val, 2, LAMBDA m : ais2dw12_power_mode_set(m, val))
  \/ \E val \in Byte :
       SetCall("ff_dur_set", val, 4, LAMBDA m : ais2dw12_ff_dur_set(m, val))
  \/ GetCall("ff_dur_set", "ff_dur_get", 2, LAMBDA m : ais2dw12_ff_dur_get(m))
  \/ GetCall("power_mode_set", "power_mode_get", 1, LAMBDA m : ais2dw12_power_mode_get(m))
  \/ \E val \in Members(ais2dw12_odr_t) :
       SetCall("data_rate_set", val, 4, LAMBDA m : ais2dw12_data_rate_set(m, val))
  \/ GetCall("data_rate_set", "data_rate_get", 2, LAMBDA m : ais2dw12_data_rate_get(m))
  \/ \E val \in Members(ais2dw12_fds_t) :
       SetCall("filter_path_set", val, 4, LAMBDA m : ais2dw12_filter_path_set(m, val))
  \/ GetCall("filter_path_set", "filter_path_get", 2, LAMBDA m : ais2dw12_filter_path_get(m))
  \/ \E val \in Members(ais2dw12_sleep_on_t) :
       SetCall("act_mode_set", val, 4, LAMBDA m : ais2dw12_act_mode_set(m, val))
  \/ GetCall("act_mode_set", "act_mode_get", 2, LAMBDA m : ais2dw12_act_mode_get(m))
  \/ \E val \in Members(ais2dw12_fs_t) :
       SetCall("full_scale_set", val, 2, LAMBDA m : ais2dw12_full_scale_set(m, val))
  \/ GetCall("full_scale_set", "full_scale_get", 1, LAMBDA m : ais2dw12_full_scale_get(m))
  \/ \E val \in Members(ais2dw12_usr_off_w_t) :
       SetCall("offset_weight_set", val, 2, LAMBDA m : ais2dw12_offset_weight_set(m, val))
  \/ GetCall("offset_weight_set", "offset_weight_get", 1, LAMBDA m : ais2dw12_offset_weight_get(m))
  \/ \E val \in Members(ais2dw12_st_t) :
       SetCall("self_test_set", val, 2, LAMBDA m : ais2dw12_self_test_set(m, val))
  \/ GetCall("self_test_set", "self_test_get", 1, LAMBDA m : ais2dw12_self_test_get(m))
  \/ \E val \in Members(ais2dw12_drdy_pulsed_t) :
       SetCall("data_ready_mode_set", val, 2, LAMBDA m : ais2dw12_data_ready_mode_set(m, val))
  \/ GetCall("data_ready_mode_set", "data_ready_mode_get", 1, LAMBDA m : ais2dw12_data_ready_mode_get(m))
  \/ \E val \in Members(ais2dw12_bw_filt_t) :
       SetCall("filter_bandwidth_set", val, 2, LAMBDA m : ais2dw12_filter_bandwidth_set(m, val))
  \/ GetCall("filter_bandwidth_set", "filter_bandwidth_get", 1, LAMBDA m : ais2dw12_filter_bandwidth_get(m))
  \/ \E val \in Members(ais2dw12_sim_t) :
       SetCall("spi_mode_set", val, 2, LAMBDA m : ais2dw12_spi_mode_set(m, val))
  \/ GetCall("spi_mode_set", "spi_mode_get", 1, LAMBDA m : ais2dw12_spi_mode_get(m))
  \/ \E val \in Members(ais2dw12_i2c_disable_t) :
       SetCall("i2c_interface_set", val, 2, LAMBDA m : ais2dw12_i2c_interface_set(m, val))
  \/ GetCall("i2c_interface_set", "i2c_interface_get", 1, LAMBDA m : ais2dw12_i2c_interface_get(m))
  \/ \E val \in Members(ais2dw12_cs_pu_disc_t) :
       SetCall("cs_mode_set", val, 2, LAMBDA m : ais2dw12_cs_mode_set(m, val))
  \/ GetCall("cs_mode_set", "cs_mode_get", 1, LAMBDA m : ais2dw12_cs_mode_get(m))
  \/ \E val \in Members(ais2dw12_h_lactive_t) :
       SetCall("pin_polarity_set", val, 2, LAMBDA m : ais2dw12_pin_polarity_set(m, val))
  \/ GetCall("pin_polarity_set", "pin_polarity_get", 1, LAMBDA m : ais2dw12_pin_polarity_get(m))
  \/ \E val \in Members(ais2dw12_lir_t) :
       SetCall("int_notification_set", val, 2, LAMBDA m : ais2dw12_int_notification_set(m, val))
  \/ GetCall("int_notification_set", "int_notification_get", 1, LAMBDA m : ais2dw12_int_notification_get(m))
  \/ \E val \in Members(ais2dw12_pp_od_t) :
       SetCall("pin_mode_set", val, 2, LAMBDA m : ais2dw12_pin_mode_set(m, val))
  \/ GetCall("pin_mode_set", "pin_mode_get", 1, LAMBDA m : ais2dw12_pin_mode_get(m))
  \/ \E val \in Members(ais2dw12_usr_off_on_wu_t) :
       SetCall("wkup_feed_data_set", val, 2, LAMBDA m : ais2dw12_wkup_feed_data_set(m, val))
  \/ GetCall("wkup_feed_data_set", "wkup_feed_data_get", 1, LAMBDA m : ais2dw12_wkup_feed_data_get(m))
  \/ \E val \in Members(ais2dw12_lpass_on6d_t) :
       SetCall("6d_feed_data_set", val, 2, LAMBDA m : ais2dw12_6d_feed_data_set(m, val))
  \/ GetCall("6d_feed_data_set", "6d_feed_data_get", 1, LAMBDA m : ais2dw12_6d_feed_data_get(m))
  \/ \E val \in Members(ais2dw12_ff_ths_t) :
       SetCall("ff_threshold_set", val, 2, LAMBDA m : ais2dw12_ff_threshold_set(m, val))
  \/ GetCall("ff_threshold_set", "ff_threshold_get", 1, LAMBDA m : ais2dw12_ff_threshold_get(m))
  \/ \E val \in Members(ais2dw12_fmode_t) :
       SetCall("fifo_mode_set", val, 2, LAMBDA m : ais2dw12_fifo_mode_set(m, val))
  \/ GetCall("fifo_mode_set", "fifo_mode_get", 1, LAMBDA m : ais2dw12_fifo_mode_get(m))

SpecRoundTrip == Init /\ [][NextRoundTrip]_vars

---------------------------------------------------------------------------
(* Enumerated getters on every content of the fields they decode *)

\* bytes whose two nibbles are equal: every field of every register takes
\* each of its values in one of them
DecodeBytes == {17 * k : k \in 0..15}

\* registers a getter reads together hold different bytes
InitDecode ==
  /\ \E x, y \in DecodeBytes :
       regs = [a \in Addr |-> IF SeedOf[a] = 0 THEN x ELSE y]
  /\ hist = <<>>
  /\ threads = <<>>

NextDecode ==
  \/ Call("power_mode_get", 0, 1, LAMBDA m : ais2dw12_power_mode_get(m))
  \/ Call("data_rate_get", 0, 2, LAMBDA m : ais2dw12_data_rate_get(m))
  \/ Call("filter_path_get", 0, 2, LAMBDA m : ais2dw12_filter_path_get(m))
  \/ Call("act_mode_get", 0, 2, LAMBDA m : ais2dw12_act_mode_get(m))
  \/ Call("full_scale_get", 0, 1, LAMBDA m : ais2dw12_full_scale_get(m))
  \/ Call("offset_weight_get", 0, 1, LAMBDA m : ais2dw12_offset_weight_get(m))
  \/ Call("self_test_get", 0, 1, LAMBDA m : ais2dw12_self_test_get(m))
  \/ Call("data_ready_mode_get", 0, 1, LAMBDA m : ais2dw12_data_ready_mode_get(m))
  \/ Call("filter_bandwidth_get", 0, 1, LAMBDA m : ais2dw12_filter_bandwidth_get(m))
  \/ Call("spi_mode_get", 0, 1, LAMBDA m : ais2dw12_spi_mode_get(m))
  \/ Call("i2c_interface_get", 0, 1, LAMBDA m : ais2dw12_i2c_interface_get(m))
  \/ Call("cs_mode_get", 0, 1, LAMBDA m : ais2dw12_cs_mode_get(m))
  \/ Call("pin_polarity_get", 0, 1, LAMBDA m : ais2dw12_pin_polarity_get(m))
  \/ Call("int_notification_get", 0, 1, LAMBDA m : ais2dw12_int_notification_get(m))
  \/ Call("pin_mode_get", 0, 1, LAMBDA m : ais2dw12_pin_mode_get(m))
  \/ Call("wkup_feed_data_get", 0, 1, LAMBDA m : ais2dw12_wkup_feed_data_get(m))
  \/ Call("6d_feed_data_get", 0, 1, LAMBDA m : ais2dw12_6d_feed_data_get(m))
  \/ Call("ff_threshold_get", 0, 1, LAMBDA m : ais2dw12_ff_threshold_get(m))
  \/ Call("fifo_mode_get", 0, 1, LAMBDA m : ais2dw12_fifo_mode_get(m))

SpecDecode == InitDecode /\ [][NextDecode]_vars

---------------------------------------------------------------------------
(* Burst reads of the output registers *)

\* bytes pre-loaded in the output registers
OutputBytes == {0, 4, 129, 255}

\* the three bursts: temperature, acceleration, status block
Bursts ==
  { AIS2DW12_OUT_T_L .. AIS2DW12_OUT_T_L + 1,
    AIS2DW12_OUT_X_L .. AIS2DW12_OUT_X_L + 5,
    AIS2DW12_STATUS_DUP .. AIS2DW12_STATUS_DUP + 4 }

\* each register of one burst holds a byte of its own
InitOutput ==
  /\ \E B \in Bursts : \E f \in [B -> OutputBytes] :
       regs = [a \in Addr |-> IF a \in B THEN f[a] ELSE 0]
  /\ hist = <<>>
  /\ threads = <<>>

NextOutput ==
  \/ Call("all_sources_get", 0, 1, LAMBDA m : ais2dw12_all_sources_get(m))
  \/ Call("temperature_raw_get", 0, 1, LAMBDA m : ais2dw12_temperature_raw_get(m))
  \/ Call("acceleration_raw_get", 0, 1, LAMBDA m : ais2dw12_acceleration_raw_get(m))

SpecOutput == InitOutput /\ [][NextOutput]_vars

---------------------------------------------------------------------------
(* Raw samples from every pair of bytes *)

\* OUT_T and OUT_X hold (low, high), OUT_Y holds (high, low) and OUT_Z the
\* complements (255 - low, 255 - high): each pair of registers takes every
\* pair of bytes
InitSample ==
  /\ \E low, high \in Byte :
       regs = [a \in Addr |->
                 CASE a \in {AIS2DW12_OUT_T_L, AIS2DW12_OUT_X_L} -> low
                   [] a \in {AIS2DW12_OUT_T_L + 1, AIS2DW12_OUT_X_L + 1} -> high
                   [] a = AIS2DW12_OUT_X_L + 2 -> high
                   [] a = AIS2DW12_OUT_X_L + 3 -> low
                   [] a = AIS2DW12_OUT_X_L + 4 -> 255 - low
                   [] a = AIS2DW12_OUT_X_L + 5 -> 255 - high
                   [] OTHER -> 0]
  /\ hist = <<>>
  /\ threads = <<>>

NextSample ==
  \/ SetCall("temperature_raw_get", 0, 1, LAMBDA m : ais2dw12_temperature_raw_get(m))
  \/ SetCall("acceleration_raw_get", 0, 1, LAMBDA m : ais2dw12_acceleration_raw_get(m))

SpecSample == InitSample /\ [][NextSample]_vars

---------------------------------------------------------------------------
(* Two threads calling setters on one context.  The driver takes no lock:  *)
(* the transactions of the two calls interleave, each callback being       *)
(* atomic and answering 0.                                                 *)

\* the setter a thread runs
Setter(op, val, m) ==
  CASE op = "block_data_update_set" -> ais2dw12_block_data_update_set(m, val)
    [] op = "auto_increment_set" -> ais2dw12_auto_increment_set(m, val)
    [] op = "data_rate_set" -> ais2dw12_data_rate_set(m, val)
    [] op = "power_mode_set" -> ais2dw12_power_mode_set(m, val)
    [] op = "pin_int1_route_set" -> ais2dw12_pin_int1_route_set(m, val)
    [] op = "pin_int2_route_set" -> ais2dw12_pin_int2_route_set(m, val)

\* the setters two threads run together
ThreadPairs ==
  { <<"block_data_update_set", "auto_increment_set">>,
    <<"data_rate_set", "power_mode_set">>,
    <<"pin_int1_route_set", "pin_int2_route_set">> }

\* the values the threads pass
ThreadVals ==
  [block_data_update_set |-> FlagVals,
   auto_increment_set |-> FlagVals,
   data_rate_set |-> Members(ais2dw12_odr_t),
   power_mode_set |-> Members(ais2dw12_mode_t),
   pin_int1_route_set |-> RouteVals,
   pin_int2_route_set |-> RouteVals]

\* a thread holds the function it runs, its argument, the registers as its
\* reads have found them (view), the number of transactions it has done and
\* the number of calls that had returned when it did its first one
InitThreads ==
  /\ \E b \in InitBytes : regs = [a \in Addr |-> b]
  /\ hist = <<>>
  /\ \E pair \in ThreadPairs :
       \E v \in ThreadVals[pair[1]], w \in ThreadVals[pair[2]] :
         threads = [t \in 1..2 |->
                      [op |-> pair[t], arg |-> IF t = 1 THEN v ELSE w,
                       view |-> regs, done |-> 0, began |-> 0]]

\* the call of a thread after its first j transactions: the function run on
\* what its reads have found, the transport answering 0 to j transactions
After(th, j) ==
  Setter(th.op, th.arg,
         [ctx |-> VALID, regs |-> th.view,
          plan |-> [i \in 1..4 |-> IF i <= j THEN 0 ELSE 5],
          bus |-> <<>>, ret |-> 0, data |-> <<0>>, junk |-> 0, val |-> -1])

\* thread t issues its next transaction: a read finds the register as the
\* store holds it now, a write stores the byte the call has computed from
\* what it has read; the call returns after its last transaction
Transact(t) ==
  LET th == threads[t]
      j == th.done + 1
      m == After(th, j)
  IN  /\ th.done < Len(After(th, 4).bus)
      /\ LET tx == m.bus[j]
             view == IF tx.dir = "R"
                     THEN [th.view EXCEPT ![tx.reg] = regs[tx.reg]]
                     ELSE th.view
             whole == After([th EXCEPT !.view = view], 4)
         IN  /\ regs' = IF tx.dir = "W"
                        THEN [regs EXCEPT ![tx.reg] = m.regs[tx.reg]]
                        ELSE regs
             /\ threads' = [threads EXCEPT ![t] =
                              [th EXCEPT !.view = view, !.done = j,
                                         !.began = IF j = 1 THEN Len(hist) ELSE @]]
             /\ hist' = IF j = Len(whole.bus)
                        THEN Append(hist, [op |-> th.op, arg |-> th.arg,
                                           ctx |-> VALID, ret |-> whole.ret,
                                           val |-> -1, bus |-> whole.bus,
                                           pre |-> view])
                        ELSE hist

NextThreads == \E t \in DOMAIN threads : Transact(t)

SpecThreads == InitThreads /\ [][NextThreads]_vars

---------------------------------------------------------------------------
(* Sequences of calls made one at a time on a transport that never fails *)

\* calls of one sequence
MaxCalls == 3

\* every register holds the same seed pattern
InitSequence ==
  /\ \E b \in InitBytes : regs = [a \in Addr |-> b]
  /\ hist = <<>>
  /\ threads = <<>>

\* one more setter call, the previous calls having returned
NextCall(op, arg, n, F(_)) ==
  /\ Len(hist) < MaxCalls
  /\ \A c \in {hist[i] : i \in DOMAIN hist} : c.val = -1
  /\ Return(op, arg, F(Entry(VALID, [i \in 1..n |-> 0], 90)))

\* a getter call that ends the sequence
LastCall(op, n, F(_)) ==
  /\ hist # <<>>
  /\ \A c \in {hist[i] : i \in DOMAIN hist} : c.val = -1
  /\ Return(op, 0, F(Entry(VALID, [i \in 1..n |-> 0], 90)))

NextRoute ==
  \/ \E val \in RouteVals :
       NextCall("pin_int1_route_set", val, 4,
                LAMBDA m : ais2dw12_pin_int1_route_set(m, val))
  \/ \E val \in RouteVals :
       NextCall("pin_int2_route_set", val, 4,
                LAMBDA m : ais2dw12_pin_int2_route_set(m, val))

SpecRoute == InitSequence /\ [][NextRoute]_vars

\* the data rates, power modes, self tests and polarities of the sequences
SharedVals ==
  [data_rate_set |-> {ais2dw12_odr_t.AIS2DW12_XL_ODR_25Hz,
                      ais2dw12_odr_t.AIS2DW12_XL_SET_SW_TRIG,
                      ais2dw12_odr_t.AIS2DW12_XL_SET_PIN_TRIG},
   power_mode_set |-> {ais2dw12_mode_t.AIS2DW12_PWR_MD_4,
                       ais2dw12_mode_t.AIS2DW12_SINGLE_PWR_MD_3},
   self_test_set |-> {ais2dw12_st_t.AIS2DW12_XL_ST_NEGATIVE},
   pin_polarity_set |-> FlagVals]

NextShared ==
  \/ \E val \in SharedVals.data_rate_set :
       NextCall("data_rate_set", val, 4, LAMBDA m : ais2dw12_data_rate_set(m, val))
  \/ \E val \in SharedVals.power_mode_set :
       NextCall("power_mode_set", val, 2, LAMBDA m : ais2dw12_power_mode_set(m, val))
  \/ \E val \in SharedVals.self_test_set :
       NextCall("self_test_set", val, 2, LAMBDA m : ais2dw12_self_test_set(m, val))
  \/ \E val \in SharedVals.pin_polarity_set :
       NextCall("pin_polarity_set", val, 2, LAMBDA m : ais2dw12_pin_polarity_set(m, val))
  \/ LastCall("data_rate_get", 2, LAMBDA m : ais2dw12_data_rate_get(m))
  \/ LastCall("power_mode_get", 1, LAMBDA m : ais2dw12_power_mode_get(m))

SpecShared == InitSequence /\ [][NextShared]_vars

---------------------------------------------------------------------------
(* Vocabulary of the properties *)

\* the calls that have returned
Calls == {hist[i] : i \in DOMAIN hist}

\* the two sub-registers of each composite setter, in the order the
\* property writes them
SubRegs ==
  [data_rate_set |-> <<AIS2DW12_CTRL1, AIS2DW12_CTRL3>>,
   filter_path_set |-> <<AIS2DW12_CTRL6, AIS2DW12_CTRL7>>,
   act_mode_set |-> <<AIS2DW12_WAKE_UP_THS, AIS2DW12_WAKE_UP_DUR>>,
   ff_dur_set |-> <<AIS2DW12_WAKE_UP_DUR, AIS2DW12_FREE_FALL>>]

CompositeSetters == DOMAIN SubRegs

RouteSetters == {"pin_int1_route_set", "pin_int2_route_set"}

\* positions in a bus log of the reads, of the writes, of the failures
ReadsAt(bus) == {i \in DOMAIN bus : bus[i].dir = "R"}

WritesAt(bus) == {i \in DOMAIN bus : bus[i].dir = "W"}

FailedAt(bus) == {i \in DOMAIN bus : bus[i].st # 0}

\* the registers written, in the order of the writes
WrittenRegs(bus) ==
  LET w == SelectSeq(bus, LAMBDA t : t.dir = "W")
  IN  [i \in DOMAIN w |-> w[i].reg]

\* the sub-field a composite setter puts in its first sub-register
FirstSubField(c) ==
  CASE c.op = "data_rate_set" ->
         [now |-> Get(regs[AIS2DW12_CTRL1], ais2dw12_ctrl1_t, "odr"),
          new |-> c.arg % 16]
    [] c.op = "filter_path_set" ->
         [now |-> Get(regs[AIS2DW12_CTRL6], ais2dw12_ctrl6_t, "fds"),
          new |-> (c.arg \div 16) % 2]
    [] c.op = "act_mode_set" ->
         [now |-> Get(regs[AIS2DW12_WAKE_UP_THS], ais2dw12_wake_up_ths_t, "sleep_on"),
          new |-> c.arg % 2]
    [] c.op = "ff_dur_set" ->
         [now |-> Get(regs[AIS2DW12_WAKE_UP_DUR], ais2dw12_wake_up_dur_t, "ff_dur"),
          new |-> (c.arg \div 32) % 2]

---------------------------------------------------------------------------
(* Composite setters: ordering and failures *)

\* C1: in every composite setter, each of the two sub-registers has been
\* read before the first write of the call is issued.
C1_BothReadBeforeFirstWrite ==
  \A c \in Calls :
    (c.op \in CompositeSetters /\ WritesAt(c.bus) # {}) =>
      LET first == CHOOSE i \in WritesAt(c.bus) : \A j \in WritesAt(c.bus) : i <= j
      IN  \A k \in 1..2 :
            \E i \in ReadsAt(c.bus) : i < first /\ c.bus[i].reg = SubRegs[c.op][k]

\* C2: a composite setter one of whose reads fails performs no write at
\* all, and the store after the call is the store before the call.
C2_ReadFailureNoWrite ==
  \A c \in Calls :
    (c.op \in CompositeSetters /\ ReadsAt(c.bus) \cap FailedAt(c.bus) # {}) =>
      (WritesAt(c.bus) = {} /\ regs = c.pre)

\* C3: when the first bus read of a composite setter or of a pin routing
\* setter fails, the call issues no write and returns the status of that
\* read.
C3_FirstReadFailureNoWrite ==
  \A c \in Calls :
    (/\ c.op \in CompositeSetters \cup RouteSetters
     /\ c.bus # <<>>
     /\ c.bus[1].dir = "R"
     /\ c.bus[1].st # 0) =>
      (WritesAt(c.bus) = {} /\ c.ret = c.bus[1].st /\ regs = c.pre)

C3_Witness ==
  \E c \in Calls :
    /\ c.op = "pin_int1_route_set"
    /\ c.bus # <<>>
    /\ c.bus[1].dir = "R"
    /\ c.bus[1].st = 5
    /\ c.ret = 5

\* C4: a composite setter all of whose bus transactions succeed issues
\* exactly two writes, its first sub-register then its second, whatever the
\* value being set.
C4_TwoWritesFixedOrder ==
  \A c \in Calls :
    (c.op \in CompositeSetters /\ c.bus # <<>> /\ FailedAt(c.bus) = {}) =>
      WrittenRegs(c.bus) = SubRegs[c.op]

C4_Witness ==
  \E c \in Calls :
    /\ c.op = "act_mode_set"
    /\ c.arg = ais2dw12_sleep_on_t.AIS2DW12_DETECT_STAT_MOTION
    /\ FailedAt(c.bus) = {}
    /\ Len(WrittenRegs(c.bus)) = 2

\* C5: a composite setter returns 0 only if both of its sub-register
\* writes were issued and succeeded; a call that has written exactly one of
\* the two sub-registers returns non-zero.
C5_SuccessMeansBothWritten ==
  \A c \in Calls :
    c.op \in CompositeSetters =>
      LET ok == {i \in WritesAt(c.bus) : c.bus[i].st = 0}
      IN  /\ c.ret = 0 =>
              \A k \in 1..2 : \E i \in ok : c.bus[i].reg = SubRegs[c.op][k]
          /\ Cardinality({c.bus[i].reg : i \in ok}) = 1 => c.ret # 0

C5_Witness ==
  \E c \in Calls :
    /\ c.op = "ff_dur_set"
    /\ {c.bus[i].reg : i \in {j \in WritesAt(c.bus) : c.bus[j].st = 0}}
         = {AIS2DW12_WAKE_UP_DUR}
    /\ c.ret # 0
    /\ regs # c.pre

\* C6: when the second write of a composite setter fails after the first
\* succeeded, the call returns the status of the second write, the first
\* sub-register holds its new sub-field, the second sub-register is as it
\* was, and the failed write is the last transaction of the call.
C6_SecondWriteFailure ==
  \A c \in Calls :
    (/\ c.op \in CompositeSetters
     /\ Cardinality(WritesAt(c.bus)) = 2
     /\ \E i, j \in WritesAt(c.bus) : i < j /\ c.bus[i].st = 0 /\ c.bus[j].st # 0) =>
      LET last == c.bus[Len(c.bus)]
      IN  /\ last.dir = "W"
          /\ last.st # 0
          /\ c.ret = last.st
          /\ FirstSubField(c).now = FirstSubField(c).new
          /\ regs[SubRegs[c.op][2]] = c.pre[SubRegs[c.op][2]]
          /\ \A i, j \in DOMAIN c.bus :
               (i # j /\ c.bus[i].dir = c.bus[j].dir) => c.bus[i].reg # c.bus[j].reg

C6_Witness ==
  \E c \in Calls :
    /\ c.op = "filter_path_set"
    /\ c.arg = ais2dw12_fds_t.AIS2DW12_HIGH_PASS_ON_OUT
    /\ Len(c.bus) = 4
    /\ c.bus[2].dir = "W" /\ c.bus[2].st = 0
    /\ c.bus[4].dir = "W" /\ c.bus[4].st = 5
    /\ Get(c.pre[AIS2DW12_CTRL6], ais2dw12_ctrl6_t, "fds") = 0
    /\ Get(regs[AIS2DW12_CTRL6], ais2dw12_ctrl6_t, "fds") = 1

---------------------------------------------------------------------------
(* Round trips *)

SingleRegisterGetters ==
  {"full_scale_get", "offset_weight_get", "self_test_get", "data_ready_mode_get",
   "filter_bandwidth_get", "spi_mode_get", "i2c_interface_get", "cs_mode_get",
   "pin_polarity_get", "int_notification_get", "pin_mode_get", "wkup_feed_data_get",
   "6d_feed_data_get", "ff_threshold_get", "fifo_mode_get"}

MultiFieldGetters ==
  {"power_mode_get", "data_rate_get", "filter_path_get", "act_mode_get"}

\* C7: for every single-register enumerated property and every member x of
\* its enumeration, on a transport that never fails and from any contents
\* of the store, set(x) followed by get() returns 0 and yields x.
C7_SingleRegisterRoundTrip ==
  (Len(hist) = 2 /\ hist[2].op \in SingleRegisterGetters) =>
    (hist[1].ret = 0 /\ hist[2].ret = 0 /\ hist[2].val = hist[1].arg)

C7_Witness ==
  /\ Len(hist) = 2
  /\ hist[2].op = "fifo_mode_get"
  /\ hist[1].arg = ais2dw12_fmode_t.AIS2DW12_STREAM_MODE
  /\ Get(hist[1].pre[AIS2DW12_FIFO_CTRL], ais2dw12_fifo_ctrl_t, "fmode")
       # ais2dw12_fmode_t.AIS2DW12_STREAM_MODE
  /\ hist[2].val = ais2dw12_fmode_t.AIS2DW12_STREAM_MODE

\* C8: for every enumerated property spread over several fields (power
\* mode, data rate, filter path, activity mode) and every member x of its
\* enumeration, on a transport that never fails and from any contents of
\* the store, set(x) followed by get() returns 0 and yields x.
C8_MultiFieldRoundTrip ==
  (Len(hist) = 2 /\ hist[2].op \in MultiFieldGetters) =>
    (hist[1].ret = 0 /\ hist[2].ret = 0 /\ hist[2].val = hist[1].arg)

C8_Witness ==
  /\ Len(hist) = 2
  /\ hist[2].op = "data_rate_get"
  /\ hist[1].arg = ais2dw12_odr_t.AIS2DW12_XL_SET_SW_TRIG
  /\ Get(hist[1].pre[AIS2DW12_CTRL3], ais2dw12_ctrl3_t, "slp_mode") # 3
  /\ Get(hist[1].pre[AIS2DW12_CTRL1], ais2dw12_ctrl1_t, "odr") # 2
  /\ hist[2].val = ais2dw12_odr_t.AIS2DW12_XL_SET_SW_TRIG

---------------------------------------------------------------------------
(* Interrupt pin routing and the shared interrupts_enable flag *)

\* one of the three routed flags of a CTRL4_INT1 byte is set
Int1Routed(b) ==
  \/ Get(b, ais2dw12_ctrl4_int1_t, "int1_ff") = 1
  \/ Get(b, ais2dw12_ctrl4_int1_t, "int1_wu") = 1
  \/ Get(b, ais2dw12_ctrl4_int1_t, "int1_6d") = 1

\* one of the two routed flags of a CTRL5_INT2 byte is set
Int2Routed(b) ==
  \/ Get(b, ais2dw12_ctrl5_int2_t, "int2_sleep_state") = 1
  \/ Get(b, ais2dw12_ctrl5_int2_t, "int2_sleep_chg") = 1

InterruptsEnable(store) ==
  Get(store[AIS2DW12_CTRL7], ais2dw12_ctrl7_t, "interrupts_enable")

\* C9: a successful pin_int1_route_set(val) writes CTRL7.interrupts_enable
\* as 1 when one of val.int1_ff, val.int1_wu, val.int1_6d or of the
\* int2_sleep_state, int2_sleep_chg stored in CTRL5_INT2 at the call is 1,
\* and as 0 when the five are 0.
C9_Int1RouteEnable ==
  \A c \in Calls :
    (c.op = "pin_int1_route_set" /\ c.ret = 0) =>
      /\ c.bus[Len(c.bus)] = [dir |-> "W", reg |-> AIS2DW12_CTRL7, len |-> 1, st |-> 0]
      /\ InterruptsEnable(regs) =
           IF Int1Routed(c.arg) \/ Int2Routed(c.pre[AIS2DW12_CTRL5_INT2])
           THEN 1 ELSE 0

C9_Witness ==
  \E c \in Calls :
    /\ c.op = "pin_int1_route_set"
    /\ c.ret = 0
    /\ c.arg = 79
    /\ ~Int2Routed(c.pre[AIS2DW12_CTRL5_INT2])
    /\ InterruptsEnable(c.pre) = 1
    /\ InterruptsEnable(regs) = 0

\* C10: a successful pin_int2_route_set(val) writes CTRL7.interrupts_enable
\* as 1 when one of val.int2_sleep_state, val.int2_sleep_chg or of the
\* int1_ff, int1_wu, int1_6d stored in CTRL4_INT1 at the call is 1, and as
\* 0 when the five are 0; CTRL4_INT1 is read before any write is issued.
C10_Int2RouteEnable ==
  \A c \in Calls :
    (c.op = "pin_int2_route_set" /\ c.ret = 0) =>
      /\ c.bus[Len(c.bus)] = [dir |-> "W", reg |-> AIS2DW12_CTRL7, len |-> 1, st |-> 0]
      /\ InterruptsEnable(regs) =
           IF Int2Routed(c.arg) \/ Int1Routed(c.pre[AIS2DW12_CTRL4_INT1])
           THEN 1 ELSE 0
      /\ \E i \in ReadsAt(c.bus) :
           /\ c.bus[i].reg = AIS2DW12_CTRL4_INT1
           /\ \A j \in WritesAt(c.bus) : i < j

C10_Witness ==
  \E c \in Calls :
    /\ c.op = "pin_int2_route_set"
    /\ c.ret = 0
    /\ ~Int2Routed(c.arg)
    /\ Get(c.pre[AIS2DW12_CTRL4_INT1], ais2dw12_ctrl4_int1_t, "int1_ff") = 1
    /\ InterruptsEnable(c.pre) = 0
    /\ InterruptsEnable(regs) = 1

---------------------------------------------------------------------------
(* Status of a call *)

\* C11: a call made with a null device context returns -1, invokes neither
\* transport callback and leaves the register store as it was.
C11_NullContext ==
  \A c \in Calls :
    c.ctx = NULL => (c.ret = -1 /\ c.bus = <<>> /\ regs = c.pre)

C11_Witness ==
  \E c \in Calls :
    /\ c.op = "pin_int2_route_set"
    /\ c.ctx = NULL
    /\ c.ret = -1
    /\ c.arg # c.pre[AIS2DW12_CTRL5_INT2]
    /\ regs = c.pre

C13_FirstFailureStops ==
  \A c \in Calls :
    \A i \in FailedAt(c.bus) : i = Len(c.bus) /\ c.ret = c.bus[i].st

C13_Witness ==
  \E c \in Calls :
    /\ c.op = "act_mode_get"
    /\ Len(c.bus) = 1
    /\ c.bus[1].st = -2
    /\ c.ret = -2

---------------------------------------------------------------------------
(* Decoding of enumerated properties *)

\* for each enumerated getter: the members of its enumeration, the member
\* its switch assigns by default, and the fields <<register, layout, field,
\* left shift>> whose sum is the value it switches on
Decoding ==
  ("power_mode_get" :>
       [enum |-> Members(ais2dw12_mode_t),
        dflt |-> ais2dw12_mode_t.AIS2DW12_PWR_MD_4,
        fields |->
        <<<<AIS2DW12_CTRL1, ais2dw12_ctrl1_t, "op_mode", 2>>,
          <<AIS2DW12_CTRL1, ais2dw12_ctrl1_t, "pw_mode", 0>>>>])
  @@ ("data_rate_get" :>
       [enum |-> Members(ais2dw12_odr_t),
        dflt |-> ais2dw12_odr_t.AIS2DW12_XL_ODR_OFF,
        fields |->
        <<<<AIS2DW12_CTRL3, ais2dw12_ctrl3_t, "slp_mode", 4>>,
          <<AIS2DW12_CTRL1, ais2dw12_ctrl1_t, "odr", 0>>>>])
  @@ ("filter_path_get" :>
       [enum |-> Members(ais2dw12_fds_t),
        dflt |-> ais2dw12_fds_t.AIS2DW12_LPF_ON_OUT,
        fields |->
        <<<<AIS2DW12_CTRL6, ais2dw12_ctrl6_t, "fds", 4>>,
          <<AIS2DW12_CTRL7, ais2dw12_ctrl7_t, "usr_off_on_out", 0>>>>])
  @@ ("act_mode_get" :>
       [enum |-> Members(ais2dw12_sleep_on_t),
        dflt |-> ais2dw12_sleep_on_t.AIS2DW12_NO_DETECTION,
        fields |->
        <<<<AIS2DW12_WAKE_UP_DUR, ais2dw12_wake_up_dur_t, "stationary", 1>>,
          <<AIS2DW12_WAKE_UP_THS, ais2dw12_wake_up_ths_t, "sleep_on", 0>>>>])
  @@ ("full_scale_get" :>
       [enum |-> Members(ais2dw12_fs_t),
        dflt |-> ais2dw12_fs_t.AIS2DW12_2g,
        fields |->
        <<<<AIS2DW12_CTRL6, ais2dw12_ctrl6_t, "fs", 0>>>>])
  @@ ("offset_weight_get" :>
       [enum |-> Members(ais2dw12_usr_off_w_t),
        dflt |-> ais2dw12_usr_off_w_t.AIS2DW12_LSb_977ug,
        fields |->
        <<<<AIS2DW12_CTRL7, ais2dw12_ctrl7_t, "usr_off_w", 0>>>>])
  @@ ("self_test_get" :>
       [enum |-> Members(ais2dw12_st_t),
        dflt |-> ais2dw12_st_t.AIS2DW12_XL_ST_DISABLE,
        fields |->
        <<<<AIS2DW12_CTRL3, ais2dw12_ctrl3_t, "st", 0>>>>])
  @@ ("data_ready_mode_get" :>
       [enum |-> Members(ais2dw12_drdy_pulsed_t),
        dflt |-> ais2dw12_drdy_pulsed_t.AIS2DW12_DRDY_LATCHED,
        fields |->
        <<<<AIS2DW12_CTRL7, ais2dw12_ctrl7_t, "drdy_pulsed", 0>>>>])
  @@ ("filter_bandwidth_get" :>
       [enum |-> Members(ais2dw12_bw_filt_t),
        dflt |-> ais2dw12_bw_filt_t.AIS2DW12_ODR_DIV_2,
        fields |->
        <<<<AIS2DW12_CTRL6, ais2dw12_ctrl6_t, "bw_filt", 0>>>>])
  @@ ("spi_mode_get" :>
       [enum |-> Members(ais2dw12_sim_t),
        dflt |-> ais2dw12_sim_t.AIS2DW12_SPI_4_WIRE,
        fields |->
        <<<<AIS2DW12_CTRL2, ais2dw12_ctrl2_t, "sim", 0>>>>])
  @@ ("i2c_interface_get" :>
       [enum |-> Members(ais2dw12_i2c_disable_t),
        dflt |-> ais2dw12_i2c_disable_t.AIS2DW12_I2C_ENABLE,
        fields |->
        <<<<AIS2DW12_CTRL2, ais2dw12_ctrl2_t, "i2c_disable", 0>>>>])
  @@ ("cs_mode_get" :>
       [enum |-> Members(ais2dw12_cs_pu_disc_t),
        dflt |-> ais2dw12_cs_pu_disc_t.AIS2DW12_PULL_UP_CONNECT,
        fields |->
        <<<<AIS2DW12_CTRL2, ais2dw12_ctrl2_t, "cs_pu_disc", 0>>>>])
  @@ ("pin_polarity_get" :>
       [enum |-> Members(ais2dw12_h_lactive_t),
        dflt |-> ais2dw12_h_lactive_t.AIS2DW12_ACTIVE_HIGH,
        fields |->
        <<<<AIS2DW12_CTRL3, ais2dw12_ctrl3_t, "h_lactive", 0>>>>])
  @@ ("int_notification_get" :>
       [enum |-> Members(ais2dw12_lir_t),
        dflt |-> ais2dw12_lir_t.AIS2DW12_INT_PULSED,
        fields |->
        <<<<AIS2DW12_CTRL3, ais2dw12_ctrl3_t, "lir", 0>>>>])
  @@ ("pin_mode_get" :>
       [enum |-> Members(ais2dw12_pp_od_t),
        dflt |-> ais2dw12_pp_od_t.AIS2DW12_PUSH_PULL,
        fields |->
        <<<<AIS2DW12_CTRL3, ais2dw12_ctrl3_t, "pp_od", 0>>>>])
  @@ ("wkup_feed_data_get" :>
       [enum |-> Members(ais2dw12_usr_off_on_wu_t),
        dflt |-> ais2dw12_usr_off_on_wu_t.AIS2DW12_HP_FEED,
        fields |->
        <<<<AIS2DW12_CTRL7, ais2dw12_ctrl7_t, "usr_off_on_wu", 0>>>>])
  @@ ("6d_feed_data_get" :>
       [enum |-> Members(ais2dw12_lpass_on6d_t),
        dflt |-> ais2dw12_lpass_on6d_t.AIS2DW12_ODR_DIV_2_FEED,
        fields |->
        <<<<AIS2DW12_CTRL7, ais2dw12_ctrl7_t, "lpass_on6d", 0>>>>])
  @@ ("ff_threshold_get" :>
       [enum |-> Members(ais2dw12_ff_ths_t),
        dflt |-> ais2dw12_ff_ths_t.AIS2DW12_FF_TSH_5LSb_FS2g,
        fields |->
        <<<<AIS2DW12_FREE_FALL, ais2dw12_free_fall_t, "ff_ths", 0>>>>])
  @@ ("fifo_mode_get" :>
       [enum |-> Members(ais2dw12_fmode_t),
        dflt |-> ais2dw12_fmode_t.AIS2DW12_BYPASS_MODE,
        fields |->
        <<<<AIS2DW12_FIFO_CTRL, ais2dw12_fifo_ctrl_t, "fmode", 0>>>>])

EnumGetters == DOMAIN Decoding

RECURSIVE SumOfFields(_, _)
\* the value a getter switches on, read from a store
SumOfFields(fields, store) ==
  IF fields = <<>> THEN 0
  ELSE LET h == Head(fields)
       IN  Get(store[h[1]], h[2], h[3]) * Pow2(h[4])
             + SumOfFields(Tail(fields), store)

\* the reads of a call were issued and all succeeded
ReadsSucceeded(c) ==
  c.ctx # NULL /\ c.bus # <<>> /\ FailedAt(c.bus) = {}

\* C14: an enumerated getter whose reads succeed returns 0 and yields the
\* member whose code the decoded field bits hold or, when they hold the
\* code of no member, the fixed default member of that getter.
C14_DefaultOnMismatch ==
  \A c \in Calls :
    (c.op \in EnumGetters /\ ReadsSucceeded(c)) =>
      LET d == Decoding[c.op]
          key == SumOfFields(d.fields, c.pre)
      IN  /\ c.ret = 0
          /\ c.val = IF key \in d.enum THEN key ELSE d.dflt

C14_Witness ==
  \E c \in Calls :
    /\ c.op = "power_mode_get"
    /\ ReadsSucceeded(c)
    /\ SumOfFields(Decoding[c.op].fields, c.pre) = 5
    /\ c.ret = 0
    /\ c.val = ais2dw12_mode_t.AIS2DW12_PWR_MD_4

---------------------------------------------------------------------------
(* Burst reads: status block and raw samples *)

\* the bus log of a call that issued one read of len bytes at reg
OneRead(c, reg, len) ==
  /\ Len(c.bus) = 1
  /\ c.bus[1].dir = "R"
  /\ c.bus[1].reg = reg
  /\ c.bus[1].len = len

\* the 16-bit two's-complement value of u in 0..65535
TwosComplement16(u) == IF u < 32768 THEN u ELSE u - 65536

\* the sample held by the registers at low and low + 1 of a store
SampleAt(store, low) == TwosComplement16(store[low + 1] * 256 + store[low])

C16_RawSampleValue ==
  \A c \in Calls :
    /\ (c.op = "temperature_raw_get" /\ c.ret = 0) =>
         c.val = SampleAt(c.pre, AIS2DW12_OUT_T_L)
    /\ (c.op = "acceleration_raw_get" /\ c.ret = 0) =>
         \A k \in 1..3 : c.val[k] = SampleAt(c.pre, AIS2DW12_OUT_X_L + 2 * (k - 1))

C16_Witness ==
  \E c \in Calls :
    /\ c.op = "temperature_raw_get"
    /\ c.ret = 0
    /\ c.pre[AIS2DW12_OUT_T_L] = 0
    /\ c.pre[AIS2DW12_OUT_T_L + 1] = 4
    /\ c.val = 1024

\* a second state where a negative sample is assembled
C16_WitnessNegative ==
  \E c \in Calls :
    /\ c.op = "acceleration_raw_get"
    /\ c.ret = 0
    /\ c.pre[AIS2DW12_OUT_X_L] = 1
    /\ c.pre[AIS2DW12_OUT_X_L + 1] = 128
    /\ c.val = <<-32767, 384, 32766>>

\* C17: acceleration_raw_get issues exactly one read, of 6 bytes at OUT_X_L,
\* and temperature_raw_get exactly one read, of 2 bytes at OUT_T_L; after a
\* successful read each of X, Y, Z is the sample of its own pair of bytes,
\* (0,1), (2,3), (4,5), whatever the other four bytes hold.
C17_OneBurstPerReading ==
  \A c \in Calls :
    /\ (c.op = "acceleration_raw_get" /\ c.ctx # NULL) =>
         /\ OneRead(c, AIS2DW12_OUT_X_L, 6)
         /\ c.ret = 0 =>
               c.val = <<SampleAt(c.pre, AIS2DW12_OUT_X_L),
                         SampleAt(c.pre, AIS2DW12_OUT_X_L + 2),
                         SampleAt(c.pre, AIS2DW12_OUT_X_L + 4)>>
    /\ (c.op = "temperature_raw_get" /\ c.ctx # NULL) =>
         OneRead(c, AIS2DW12_OUT_T_L, 2)

C17_Witness ==
  \E c \in Calls :
    /\ c.op = "acceleration_raw_get"
    /\ c.ret = 0
    /\ OneRead(c, AIS2DW12_OUT_X_L, 6)
    /\ [i \in 0..5 |-> c.pre[AIS2DW12_OUT_X_L + i]]
         = [i \in 0..5 |-> <<0, 4, 255, 255, 129, 0>>[i + 1]]
    /\ c.val = <<1024, -1, 129>>

---------------------------------------------------------------------------
(* Bus transactions of a call *)

\* the setters of a whole register, and the register each writes
WholeRegisterSetters ==
  [usr_offset_x_set |-> AIS2DW12_X_OFS_USR,
   usr_offset_y_set |-> AIS2DW12_Y_OFS_USR,
   usr_offset_z_set |-> AIS2DW12_Z_OFS_USR]

CompositeGetters ==
  {"data_rate_get", "filter_path_get", "act_mode_get", "ff_dur_get"}

\* C18 as stated: every get and every set operation issues at least one bus
\* read of the device on each call.
C18_EveryCallReads ==
  \A c \in Calls : c.ctx # NULL => ReadsAt(c.bus) # {}

\* C18 amended: every get operation and every set operation of a bit-field
\* or routing property starts with a bus read of the device; the setters of
\* a whole register (usr_offset_x/y/z_set) issue one write of the caller's
\* byte and no read.
C18_ReadFirstUnlessWholeRegister ==
  \A c \in Calls :
    c.ctx # NULL =>
      IF c.op \in DOMAIN WholeRegisterSetters
      THEN /\ Len(c.bus) = 1
           /\ c.bus[1].dir = "W"
           /\ c.bus[1].reg = WholeRegisterSetters[c.op]
           /\ c.ret = 0 => regs = [c.pre EXCEPT ![c.bus[1].reg] = c.arg]
      ELSE c.bus # <<>> /\ c.bus[1].dir = "R"

C18_Witness ==
  \E c \in Calls :
    /\ c.op = "usr_offset_y_set"
    /\ c.ret = 0
    /\ c.arg = 21
    /\ c.pre[AIS2DW12_Y_OFS_USR] # 21
    /\ regs[AIS2DW12_Y_OFS_USR] = 21
    /\ ReadsAt(c.bus) = {}

\* C19 as stated: a composite read or write operation none of whose
\* transactions fails issues between 2 and 3 bus transactions.
C19_TwoOrThreeTransactions ==
  \A c \in Calls :
    (/\ c.op \in CompositeGetters \cup CompositeSetters \cup RouteSetters
     /\ ReadsSucceeded(c)) =>
      Len(c.bus) \in 2..3

\* C19 amended: when no transaction fails, a composite getter issues exactly
\* 2 bus transactions (two reads) and a composite setter or pin routing
\* setter exactly 4 (two reads and two writes).
C19_TwoReadsOrTwoReadsTwoWrites ==
  \A c \in Calls :
    ReadsSucceeded(c) =>
      /\ c.op \in CompositeGetters =>
            (Len(c.bus) = 2 /\ ReadsAt(c.bus) = {1, 2})
      /\ c.op \in CompositeSetters \cup RouteSetters =>
            (/\ Len(c.bus) = 4
             /\ Cardinality(ReadsAt(c.bus)) = 2
             /\ Cardinality(WritesAt(c.bus)) = 2)

C19_Witness ==
  \E c \in Calls :
    /\ c.op = "ff_dur_set"
    /\ ReadsSucceeded(c)
    /\ c.ret = 0
    /\ Len(c.bus) = 4

\* C20: within one call no (direction, register address) pair is issued
\* twice, whether the transaction succeeded or failed, and no call issues
\* more than four bus transactions.
C20_NoRetry ==
  \A c \in Calls :
    /\ Len(c.bus) <= 4
    /\ \A i, j \in DOMAIN c.bus :
         (c.bus[i].dir = c.bus[j].dir /\ c.bus[i].reg = c.bus[j].reg) => i = j

C20_Witness ==
  \E c \in Calls :
    /\ c.op = "data_rate_set"
    /\ Len(c.bus) = 2
    /\ c.bus[2].dir = "W"
    /\ c.bus[2].st = 5
    /\ c.ret = 5

---------------------------------------------------------------------------
(* Concurrent setters of one register *)

\* the calls of both threads have returned
BothReturned == DOMAIN threads = 1..2 /\ Len(hist) = 2

\* one call had returned when the other issued its first transaction
OneAfterTheOther == \E t \in DOMAIN threads : threads[t].began = 1

\* setters of different fields of CTRL2 and of CTRL1
SharedRegisterSetters ==
  {"block_data_update_set", "auto_increment_set", "data_rate_set",
   "power_mode_set"}

\* the store holds the setting the call c has asked for
TookEffect(c) ==
  CASE c.op = "block_data_update_set" ->
         Get(regs[AIS2DW12_CTRL2], ais2dw12_ctrl2_t, "bdu") = c.arg
    [] c.op = "auto_increment_set" ->
         Get(regs[AIS2DW12_CTRL2], ais2dw12_ctrl2_t, "if_add_inc") = c.arg
    [] c.op = "data_rate_set" ->
         /\ Get(regs[AIS2DW12_CTRL1], ais2dw12_ctrl1_t, "odr") = c.arg % 16
         /\ Get(regs[AIS2DW12_CTRL3], ais2dw12_ctrl3_t, "slp_mode")
              = (c.arg \div 16) % 4
    [] c.op = "power_mode_set" ->
         /\ Get(regs[AIS2DW12_CTRL1], ais2dw12_ctrl1_t, "op_mode")
              = (c.arg \div 4) % 4
         /\ Get(regs[AIS2DW12_CTRL1], ais2dw12_ctrl1_t, "pw_mode") = c.arg % 4

\* C21 as stated: when two threads run setters of different fields of one
\* register concurrently and both calls return 0, both settings are in the
\* store, under every interleaving of their transactions.
C21_BothTakeEffect ==
  (/\ BothReturned
   /\ \A c \in Calls : c.op \in SharedRegisterSetters /\ c.ret = 0)
  => \A c \in Calls : TookEffect(c)

\* C21: when two threads run setters of different fields of one register
\* concurrently and both calls return 0, at least one of the two settings
\* is in the store, and both are when one call had returned before the
\* other issued its first transaction.
C21_BothTakeEffectInTurn ==
  (/\ BothReturned
   /\ \A c \in Calls : c.op \in SharedRegisterSetters /\ c.ret = 0)
  => /\ \E c \in Calls : TookEffect(c)
     /\ OneAfterTheOther => \A c \in Calls : TookEffect(c)

C21_Witness ==
  /\ BothReturned
  /\ OneAfterTheOther
  /\ hist[1].op = "block_data_update_set"
  /\ hist[2].op = "auto_increment_set"
  /\ hist[1].ret = 0 /\ hist[2].ret = 0
  /\ hist[1].arg = 1 /\ hist[2].arg = 1
  /\ hist[1].pre[AIS2DW12_CTRL2] = 0
  /\ regs[AIS2DW12_CTRL2] = 12

---------------------------------------------------------------------------
(* Operating mode and CTRL6 *)

\* C22: a successful power_mode_set(val) leaves op_mode and pw_mode of CTRL1
\* as val says and, as the comment of the function documents, also writes
\* CTRL6 for the low-noise setting.
C22_PowerModeWritesCtrl6 ==
  \A c \in Calls :
    (c.op = "power_mode_set" /\ c.ret = 0)
    => /\ Get(regs[AIS2DW12_CTRL1], ais2dw12_ctrl1_t, "op_mode")
            = (c.arg \div 4) % 4
       /\ Get(regs[AIS2DW12_CTRL1], ais2dw12_ctrl1_t, "pw_mode") = c.arg % 4
       /\ \E i \in WritesAt(c.bus) : c.bus[i].reg = AIS2DW12_CTRL6

---------------------------------------------------------------------------
(* interrupts_enable after several routing calls *)

\* the five routed flags as the store holds them
RoutedInStore ==
  \/ Int1Routed(regs[AIS2DW12_CTRL4_INT1])
  \/ Int2Routed(regs[AIS2DW12_CTRL5_INT2])

\* C23: after one or more pin_int1_route_set / pin_int2_route_set calls made
\* one at a time on a transport that never fails, CTRL7.interrupts_enable is
\* the OR of int1_ff, int1_wu, int1_6d stored in CTRL4_INT1 and
\* int2_sleep_state, int2_sleep_chg stored in CTRL5_INT2; once the five
\* flags are cleared it is 0.
C23_EnableFollowsStoredFlags ==
  (/\ hist # <<>>
   /\ threads = <<>>
   /\ \A c \in Calls : c.op \in RouteSetters /\ c.ret = 0)
  => InterruptsEnable(regs) = IF RoutedInStore THEN 1 ELSE 0

C23_Witness ==
  /\ Len(hist) = 3
  /\ threads = <<>>
  /\ \A c \in Calls : c.op \in RouteSetters /\ c.ret = 0
  /\ Int1Routed(hist[1].pre[AIS2DW12_CTRL4_INT1])
  /\ InterruptsEnable(hist[3].pre) = 1
  /\ ~RoutedInStore
  /\ InterruptsEnable(regs) = 0

\* C24 as stated: when pin_int1_route_set and pin_int2_route_set run
\* concurrently on a transport that never fails, after both have returned
\* interrupts_enable is the OR of the five routed flags as finally stored,
\* under every interleaving of their transactions.
C24_EnableFollowsUnderInterleaving ==
  (/\ BothReturned
   /\ \A c \in Calls : c.op \in RouteSetters /\ c.ret = 0)
  => InterruptsEnable(regs) = IF RoutedInStore THEN 1 ELSE 0

\* C24: when pin_int1_route_set and pin_int2_route_set are run by two
\* threads on a transport that never fails and one call has returned before
\* the other issues its first transaction, after both have returned
\* interrupts_enable is the OR of the five routed flags as finally stored.
C24_EnableFollowsInTurn ==
  (/\ BothReturned
   /\ OneAfterTheOther
   /\ \A c \in Calls : c.op \in RouteSetters /\ c.ret = 0)
  => InterruptsEnable(regs) = IF RoutedInStore THEN 1 ELSE 0

C24_Witness ==
  /\ BothReturned
  /\ OneAfterTheOther
  /\ hist[1].op = "pin_int2_route_set"
  /\ hist[2].op = "pin_int1_route_set"
  /\ Int2Routed(hist[1].arg)
  /\ ~Int1Routed(hist[2].arg)
  /\ InterruptsEnable(hist[1].pre) = 0
  /\ InterruptsEnable(regs) = 1

---------------------------------------------------------------------------
(* What a setter leaves alone *)

\* the register and the field of each setter of one field
OwnField ==
  ("full_scale_set" :> <<AIS2DW12_CTRL6, ais2dw12_ctrl6_t, "fs">>) @@
  ("offset_weight_set" :> <<AIS2DW12_CTRL7, ais2dw12_ctrl7_t, "usr_off_w">>) @@
  ("self_test_set" :> <<AIS2DW12_CTRL3, ais2dw12_ctrl3_t, "st">>) @@
  ("data_ready_mode_set" :> <<AIS2DW12_CTRL7, ais2dw12_ctrl7_t, "drdy_pulsed">>) @@
  ("filter_bandwidth_set" :> <<AIS2DW12_CTRL6, ais2dw12_ctrl6_t, "bw_filt">>) @@
  ("spi_mode_set" :> <<AIS2DW12_CTRL2, ais2dw12_ctrl2_t, "sim">>) @@
  ("i2c_interface_set" :> <<AIS2DW12_CTRL2, ais2dw12_ctrl2_t, "i2c_disable">>) @@
  ("cs_mode_set" :> <<AIS2DW12_CTRL2, ais2dw12_ctrl2_t, "cs_pu_disc">>) @@
  ("pin_polarity_set" :> <<AIS2DW12_CTRL3, ais2dw12_ctrl3_t, "h_lactive">>) @@
  ("int_notification_set" :> <<AIS2DW12_CTRL3, ais2dw12_ctrl3_t, "lir">>) @@
  ("pin_mode_set" :> <<AIS2DW12_CTRL3, ais2dw12_ctrl3_t, "pp_od">>) @@
  ("wkup_feed_data_set" :> <<AIS2DW12_CTRL7, ais2dw12_ctrl7_t, "usr_off_on_wu">>) @@
  ("6d_feed_data_set" :> <<AIS2DW12_CTRL7, ais2dw12_ctrl7_t, "lpass_on6d">>) @@
  ("ff_threshold_set" :> <<AIS2DW12_FREE_FALL, ais2dw12_free_fall_t, "ff_ths">>) @@
  ("fifo_mode_set" :> <<AIS2DW12_FIFO_CTRL, ais2dw12_fifo_ctrl_t, "fmode">>) @@
  ("block_data_update_set" :> <<AIS2DW12_CTRL2, ais2dw12_ctrl2_t, "bdu">>) @@
  ("auto_increment_set" :> <<AIS2DW12_CTRL2, ais2dw12_ctrl2_t, "if_add_inc">>) @@
  ("reset_set" :> <<AIS2DW12_CTRL2, ais2dw12_ctrl2_t, "soft_reset">>) @@
  ("boot_set" :> <<AIS2DW12_CTRL2, ais2dw12_ctrl2_t, "boot">>) @@
  ("reference_mode_set" :> <<AIS2DW12_CTRL7, ais2dw12_ctrl7_t, "hp_ref_mode">>) @@
  ("all_on_int1_set" :> <<AIS2DW12_CTRL7, ais2dw12_ctrl7_t, "int2_on_int1">>) @@
  ("wkup_threshold_set" :> <<AIS2DW12_WAKE_UP_THS, ais2dw12_wake_up_ths_t, "wk_ths">>) @@
  ("wkup_dur_set" :> <<AIS2DW12_WAKE_UP_DUR, ais2dw12_wake_up_dur_t, "wake_dur">>) @@
  ("act_sleep_dur_set" :> <<AIS2DW12_WAKE_UP_DUR, ais2dw12_wake_up_dur_t, "sleep_dur">>) @@
  ("6d_threshold_set" :> <<AIS2DW12_SIXD_THS, ais2dw12_sixd_ths_t, "_6d_ths">>) @@
  ("4d_mode_set" :> <<AIS2DW12_SIXD_THS, ais2dw12_sixd_ths_t, "_4d_en">>) @@
  ("fifo_watermark_set" :> <<AIS2DW12_FIFO_CTRL, ais2dw12_fifo_ctrl_t, "fth">>)

\* bit k of the byte b
Bit(b, k) == (b \div Pow2(k)) % 2

\* the bit positions of the field f of the layout T
BitsOf(T, f) == T[f][1] .. (T[f][1] + T[f][2] - 1)

\* C25: a call of a single-field setter writes no register but its own and
\* changes no bit of it outside its own field: every other bit keeps the
\* value the call read; when the call returns 0 the field holds the value
\* passed, truncated to the width of the field.
C25_OnlyOwnFieldChanges ==
  \A c \in Calls :
    (c.op \in DOMAIN OwnField /\ c.ctx = VALID) =>
      LET reg == OwnField[c.op][1]
          T == OwnField[c.op][2]
          f == OwnField[c.op][3]
      IN  /\ \A i \in WritesAt(c.bus) : c.bus[i].reg = reg
          /\ \A a \in Addr \ {reg} : regs[a] = c.pre[a]
          /\ \A k \in (0..7) \ BitsOf(T, f) :
               Bit(regs[reg], k) = Bit(c.pre[reg], k)
          /\ c.ret = 0 => Get(regs[reg], T, f) = c.arg % Pow2(T[f][2])

C25_Witness ==
  \E c \in Calls :
    /\ c.op = "wkup_threshold_set"
    /\ c.ret = 0
    /\ c.arg = 255
    /\ c.pre[AIS2DW12_WAKE_UP_THS] = 170
    /\ regs[AIS2DW12_WAKE_UP_THS] = 191

---------------------------------------------------------------------------
(* Properties sharing CTRL1 and CTRL3 *)

\* the store the i-th call of the sequence left
PostOf(i) == IF i < Len(hist) THEN hist[i + 1].pre ELSE regs

\* the bits of the register reg the i-th call has changed
ChangedBits(i, reg) ==
  {k \in 0..7 : Bit(PostOf(i)[reg], k) # Bit(hist[i].pre[reg], k)}

\* the last call of op in the sequence, 0 when there is none
LastOf(op) ==
  LET at == {i \in DOMAIN hist : hist[i].op = op}
  IN  IF at = {} THEN 0 ELSE CHOOSE i \in at : \A j \in at : j <= i

---------------------------------------------------------------------------
(* Getters and the store *)

\* the get operations
Getters ==
  {"power_mode_get", "data_rate_get", "full_scale_get",
   "filter_path_get", "act_mode_get", "offset_weight_get",
   "self_test_get", "data_ready_mode_get", "filter_bandwidth_get",
   "spi_mode_get", "i2c_interface_get", "cs_mode_get",
   "pin_polarity_get", "int_notification_get", "pin_mode_get",
   "wkup_feed_data_get", "6d_feed_data_get", "ff_threshold_get",
   "fifo_mode_get", "block_data_update_get", "auto_increment_get",
   "reset_get", "boot_get", "reference_mode_get", "all_on_int1_get",
   "4d_mode_get", "wkup_threshold_get", "wkup_dur_get",
   "act_sleep_dur_get", "6d_threshold_get", "fifo_watermark_get",
   "usr_offset_x_get", "usr_offset_y_get", "usr_offset_z_get",
   "status_reg_get", "flag_data_ready_get", "all_sources_get",
   "temperature_raw_get", "acceleration_raw_get", "device_id_get",
   "pin_int1_route_get", "pin_int2_route_get", "6d_src_get",
   "fifo_data_level_get", "fifo_ovr_flag_get", "fifo_wtm_flag_get",
   "ff_dur_get"}

\* C27: a get operation never invokes the write callback and leaves the
\* store as it found it, whether its reads succeed or fail.
C27_GettersNeverWrite ==
  \A c \in Calls :
    c.op \in Getters => (WritesAt(c.bus) = {} /\ regs = c.pre)

C27_Witness ==
  \E c \in Calls :
    /\ c.op = "filter_path_get"
    /\ Len(c.bus) = 2
    /\ c.bus[1].st = 0
    /\ c.bus[2].st = 5
    /\ c.ret = 5
    /\ Get(c.pre[AIS2DW12_CTRL6], ais2dw12_ctrl6_t, "fds") = 1
    /\ regs = c.pre

---------------------------------------------------------------------------
(* Free-fall duration *)

\* C28: for every val in 0..255 a successful ff_dur_set(val) puts bit 5 of
\* val in WAKE_UP_DUR.ff_dur and bits 0..4 in FREE_FALL.ff_dur, drops bits 6
\* and 7, leaves ff_ths of FREE_FALL and the other fields of WAKE_UP_DUR as
\* they were, and the ff_dur_get that follows yields val mod 64.
C28_FfDurRoundTrip ==
  (hist # <<>> /\ hist[1].op = "ff_dur_set" /\ threads = <<>>) =>
    LET c == hist[1]
        dur == PostOf(1)[AIS2DW12_WAKE_UP_DUR]
        ff == PostOf(1)[AIS2DW12_FREE_FALL]
    IN  /\ c.ret = 0
        /\ dur \div 128 = (c.arg \div 32) % 2
        /\ ff \div 8 = c.arg % 32
        /\ dur % 128 = c.pre[AIS2DW12_WAKE_UP_DUR] % 128
        /\ ff % 8 = c.pre[AIS2DW12_FREE_FALL] % 8
        /\ Len(hist) = 2 =>
             /\ hist[2].op = "ff_dur_get"
             /\ hist[2].ret = 0
             /\ hist[2].val = c.arg % 64

C28_Witness ==
  /\ Len(hist) = 2
  /\ hist[1].op = "ff_dur_set"
  /\ hist[1].arg = 233
  /\ hist[1].pre[AIS2DW12_WAKE_UP_DUR] = 85
  /\ hist[1].pre[AIS2DW12_FREE_FALL] = 170
  /\ regs[AIS2DW12_WAKE_UP_DUR] = 213
  /\ regs[AIS2DW12_FREE_FALL] = 74
  /\ hist[2].op = "ff_dur_get"
  /\ hist[2].val = 41

---------------------------------------------------------------------------
(* The output of a getter whose read fails *)

\* the getters whose output is one number
ScalarGetters == Getters \ {"all_sources_get", "acceleration_raw_get"}

\* C29: when a bus read issued by a getter fails, the getter returns the
\* status of the failed read and the caller's output is as the caller
\* passed it, for the single read of a single-register getter and for
\* either read of a two-register getter.
C29_FailedReadLeavesOutput ==
  \A c \in Calls :
    (c.op \in ScalarGetters /\ c.ctx = VALID /\ FailedAt(c.bus) # {}) =>
      /\ c.ret = c.bus[Len(c.bus)].st
      /\ c.val = -1

---------------------------------------------------------------------------
(* What the result of an enumerated getter depends on *)

\* the enumerated getter op
EnumGetter(op, m) ==
  CASE op = "power_mode_get" -> ais2dw12_power_mode_get(m)
    [] op = "data_rate_get" -> ais2dw12_data_rate_get(m)
    [] op = "filter_path_get" -> ais2dw12_filter_path_get(m)
    [] op = "act_mode_get" -> ais2dw12_act_mode_get(m)
    [] op = "full_scale_get" -> ais2dw12_full_scale_get(m)
    [] op = "offset_weight_get" -> ais2dw12_offset_weight_get(m)
    [] op = "self_test_get" -> ais2dw12_self_test_get(m)
    [] op = "data_ready_mode_get" -> ais2dw12_data_ready_mode_get(m)
    [] op = "filter_bandwidth_get" -> ais2dw12_filter_bandwidth_get(m)
    [] op = "spi_mode_get" -> ais2dw12_spi_mode_get(m)
    [] op = "i2c_interface_get" -> ais2dw12_i2c_interface_get(m)
    [] op = "cs_mode_get" -> ais2dw12_cs_mode_get(m)
    [] op = "pin_polarity_get" -> ais2dw12_pin_polarity_get(m)
    [] op = "int_notification_get" -> ais2dw12_int_notification_get(m)
    [] op = "pin_mode_get" -> ais2dw12_pin_mode_get(m)
    [] op = "wkup_feed_data_get" -> ais2dw12_wkup_feed_data_get(m)
    [] op = "6d_feed_data_get" -> ais2dw12_6d_feed_data_get(m)
    [] op = "ff_threshold_get" -> ais2dw12_ff_threshold_get(m)
    [] op = "fifo_mode_get" -> ais2dw12_fifo_mode_get(m)

\* what the getter op yields on a store, its reads succeeding
YieldOn(op, store) ==
  EnumGetter(op, [ctx |-> VALID, regs |-> store, plan |-> [i \in 1..2 |-> 0],
                  bus |-> <<>>, ret |-> 0, data |-> <<0>>, junk |-> 0,
                  val |-> -1]).val

\* the bit positions of the register a that belong to the fields
OwnBits(fields, a) ==
  UNION {BitsOf(fields[i][2], fields[i][3]) :
           i \in {j \in DOMAIN fields : fields[j][1] = a}}

\* the byte b with its bit k inverted
Flip(b, k) == IF Bit(b, k) = 1 THEN b - Pow2(k) ELSE b + Pow2(k)

\* stores that hold the same bits as the store in the fields and differ
\* elsewhere: in one other bit of a register of the fields, or in every
\* bit of every other register
Alike(fields, store) ==
  LET own == {fields[i][1] : i \in DOMAIN fields}
  IN  {[store EXCEPT ![p[1]] = Flip(@, p[2])] :
         p \in {q \in own \X (0..7) : q[2] \notin OwnBits(fields, q[1])}}
      \cup {[a \in Addr |-> IF a \in own THEN store[a] ELSE 255 - store[a]]}

\* C30: what an enumerated getter yields when its reads succeed depends on
\* the bits of the fields of its property alone: on every store holding the
\* same field bits and differing elsewhere it yields the same member, and
\* when the field bits, combined as (fieldB << N) + fieldA for a property
\* of two fields, are the code of a member it yields that member.
C30_OnlyOwnFieldBits ==
  \A c \in Calls :
    (c.op \in EnumGetters /\ ReadsSucceeded(c)) =>
      LET fields == Decoding[c.op].fields
      IN  /\ \A other \in Alike(fields, c.pre) : YieldOn(c.op, other) = c.val
          /\ SumOfFields(fields, c.pre) \in Decoding[c.op].enum
               => c.val = SumOfFields(fields, c.pre)

C30_Witness ==
  \E c \in Calls :
    /\ c.op = "data_rate_get"
    /\ ReadsSucceeded(c)
    /\ c.pre[AIS2DW12_CTRL1] = 34
    /\ c.pre[AIS2DW12_CTRL3] = 119
    /\ c.val = ais2dw12_odr_t.AIS2DW12_XL_SET_SW_TRIG
    /\ Cardinality(Alike(Decoding[c.op].fields, c.pre)) = 11

===========================================================================
